---- MODULE Spec2Model ----
(***************************************************************************)
(* Job aggregator: deduplicating ingestion pipeline (app/crud.py,          *)
(* app/utils.py) and the scored search engine (app/search.py).             *)
(*                                                                         *)
(* Text is modelled character by character: a string is a sequence of      *)
(* one-character strings, so that normalisation, tokenisation and the      *)
(* similarity ratio are computed the way the code computes them.           *)
(***************************************************************************)
EXTENDS Integers, Sequences, FiniteSets, TLC

(***************************************************************************)
(* Characters and the character classes of Python's re module              *)
(***************************************************************************)
LowerLetters ==
    {"a", "b", "c", "d", "e", "f", "g", "h", "i", "j", "k", "l", "m",
     "n", "o", "p", "q", "r", "s", "t", "u", "v", "w", "x", "y", "z"}

UpperLetters ==
    {"A", "B", "C", "D", "E", "F", "G", "H", "I", "J", "K", "L", "M",
     "N", "O", "P", "Q", "R", "S", "T", "U", "V", "W", "X", "Y", "Z"}

Digits == {"0", "1", "2", "3", "4", "5", "6", "7", "8", "9"}

\* str.lower() on one character
LowerChar(c) ==
    CASE c = "A" -> "a" [] c = "B" -> "b" [] c = "C" -> "c" [] c = "D" -> "d"
      [] c = "E" -> "e" [] c = "F" -> "f" [] c = "G" -> "g" [] c = "H" -> "h"
      [] c = "I" -> "i" [] c = "J" -> "j" [] c = "K" -> "k" [] c = "L" -> "l"
      [] c = "M" -> "m" [] c = "N" -> "n" [] c = "O" -> "o" [] c = "P" -> "p"
      [] c = "Q" -> "q" [] c = "R" -> "r" [] c = "S" -> "s" [] c = "T" -> "t"
      [] c = "U" -> "u" [] c = "V" -> "v" [] c = "W" -> "w" [] c = "X" -> "x"
      [] c = "Y" -> "y" [] c = "Z" -> "z" [] OTHER -> c

\* \w, \s and \d of the regular expressions
IsWordChar(c) == c \in LowerLetters \cup UpperLetters \cup Digits \cup {"_"}

IsSpaceChar(c) == c = " "

IsDigitChar(c) == c \in Digits

Max(a, b) == IF a >= b THEN a ELSE b

Min(a, b) == IF a <= b THEN a ELSE b

(***************************************************************************)
(* String primitives: lower(), strip(), slicing, substring test            *)
(***************************************************************************)
Lower(s) == [i \in 1..Len(s) |-> LowerChar(s[i])]

RECURSIVE LStrip(_)
LStrip(s) ==
    IF s # <<>> /\ IsSpaceChar(Head(s)) THEN LStrip(Tail(s)) ELSE s

RECURSIVE RStrip(_)
RStrip(s) ==
    IF s # <<>> /\ IsSpaceChar(s[Len(s)])
    THEN RStrip(SubSeq(s, 1, Len(s) - 1))
    ELSE s

Strip(s) == RStrip(LStrip(s))

\* s[:n]
Prefix(s, n) == SubSeq(s, 1, Min(n, Len(s)))

\* w occurs in s starting at position i
MatchAt(s, i, w) ==
    /\ i >= 1
    /\ i + Len(w) - 1 <= Len(s)
    /\ \A k \in 1..Len(w) : s[i + k - 1] = w[k]

\* Python's `w in s`
Contains(s, w) == \E i \in 1..(Len(s) + 1) : MatchAt(s, i, w)

\* re.sub(r'[^\w\s]', '', s) and, with keepSlash, re.sub(r'[^\w\s/]', '', s)
RECURSIVE RemoveSpecial(_, _)
RemoveSpecial(s, keepSlash) ==
    IF s = <<>> THEN <<>>
    ELSE LET c == Head(s)
             keep == IsWordChar(c) \/ IsSpaceChar(c) \/ (keepSlash /\ c = "/")
         IN  (IF keep THEN <<c>> ELSE <<>>) \o RemoveSpecial(Tail(s), keepSlash)

\* re.sub(r'\s+', ' ', s)
RECURSIVE CollapseSpaces(_)
CollapseSpaces(s) ==
    IF s = <<>> THEN <<>>
    ELSE IF IsSpaceChar(Head(s))
         THEN <<" ">> \o CollapseSpaces(LStrip(s))
         ELSE <<Head(s)>> \o CollapseSpaces(Tail(s))

(***************************************************************************)
(* normalize_company                                                       *)
(***************************************************************************)

\* the suffix patterns r'\s+<word>\.?$' in list order; dot is TRUE where the
\* pattern carries the optional period
CompanySuffixes ==
    << [word |-> <<"i", "n", "c">>, dot |-> TRUE],
       [word |-> <<"i", "n", "c", "o", "r", "p", "o", "r", "a", "t", "e", "d">>, dot |-> FALSE],
       [word |-> <<"l", "l", "c">>, dot |-> TRUE],
       [word |-> <<"l", "t", "d">>, dot |-> TRUE],
       [word |-> <<"c", "o", "r", "p", "o", "r", "a", "t", "i", "o", "n">>, dot |-> FALSE],
       [word |-> <<"c", "o", "r", "p">>, dot |-> TRUE],
       [word |-> <<"c", "o", "m", "p", "a", "n", "y">>, dot |-> FALSE],
       [word |-> <<"c", "o">>, dot |-> TRUE],
       [word |-> <<"l", "i", "m", "i", "t", "e", "d">>, dot |-> FALSE] >>


\* re.sub(r'\s+<word>\.?$', '', s): the leftmost match starts at the beginning
\* of the whitespace run that precedes the final word
StripSuffix(s, suf) ==
    LET body == IF suf.dot /\ s # <<>> /\ s[Len(s)] = "."
                   /\ MatchAt(s, Len(s) - Len(suf.word), suf.word)
                   /\ Len(s) - Len(suf.word) - 1 >= 1
                   /\ IsSpaceChar(s[Len(s) - Len(suf.word) - 1])
                THEN SubSeq(s, 1, Len(s) - Len(suf.word) - 1)
                ELSE IF MatchAt(s, Len(s) - Len(suf.word) + 1, suf.word)
                        /\ Len(s) - Len(suf.word) >= 1
                        /\ IsSpaceChar(s[Len(s) - Len(suf.word)])
                     THEN SubSeq(s, 1, Len(s) - Len(suf.word))
                     ELSE <<>>
    IN  IF body = <<>> THEN s ELSE RStrip(body)

RECURSIVE StripSuffixes(_, _)
StripSuffixes(s, k) ==
    IF k > Len(CompanySuffixes) THEN s
    ELSE StripSuffixes(StripSuffix(s, CompanySuffixes[k]), k + 1)

normalize_company(company) ==
    Strip(CollapseSpaces(RemoveSpecial(
        StripSuffixes(Strip(Lower(company)), 1), FALSE)))

(***************************************************************************)
(* normalize_title                                                         *)
(***************************************************************************)

\* the replacements table r'\b<word>\.?\b' -> text, in dictionary order
TitleReplacements ==
    << [word |-> <<"s", "w", "e">>, dot |-> FALSE,
        text |-> <<"s", "o", "f", "t", "w", "a", "r", "e", " ", "e", "n", "g", "i", "n", "e", "e", "r">>],
       [word |-> <<"s", "r">>, dot |-> TRUE,
        text |-> <<"s", "e", "n", "i", "o", "r">>],
       [word |-> <<"j", "r">>, dot |-> TRUE,
        text |-> <<"j", "u", "n", "i", "o", "r">>],
       [word |-> <<"m", "g", "r">>, dot |-> TRUE,
        text |-> <<"m", "a", "n", "a", "g", "e", "r">>],
       [word |-> <<"d", "e", "v">>, dot |-> TRUE,
        text |-> <<"d", "e", "v", "e", "l", "o", "p", "e", "r">>],
       [word |-> <<"e", "n", "g">>, dot |-> TRUE,
        text |-> <<"e", "n", "g", "i", "n", "e", "e", "r">>],
       [word |-> <<"q", "a">>, dot |-> FALSE,
        text |-> <<"q", "u", "a", "l", "i", "t", "y", " ", "a", "s", "s", "u", "r", "a", "n", "c", "e">>],
       [word |-> <<"m", "l">>, dot |-> FALSE,
        text |-> <<"m", "a", "c", "h", "i", "n", "e", " ", "l", "e", "a", "r", "n", "i", "n", "g">>],
       [word |-> <<"a", "i">>, dot |-> FALSE,
        text |-> <<"a", "r", "t", "i", "f", "i", "c", "i", "a", "l", " ", "i", "n", "t", "e", "l", "l", "i", "g", "e", "n", "c", "e">>],
       [word |-> <<"f", "e">>, dot |-> FALSE,
        text |-> <<"f", "r", "o", "n", "t", "e", "n", "d">>],
       [word |-> <<"b", "e">>, dot |-> FALSE,
        text |-> <<"b", "a", "c", "k", "e", "n", "d">>],
       [word |-> <<"f", "s">>, dot |-> FALSE,
        text |-> <<"f", "u", "l", "l", "s", "t", "a", "c", "k">>],
       [word |-> <<"u", "i", "/", "u", "x">>, dot |-> FALSE,
        text |-> <<"u", "i", " ", "u", "x">>] >>


\* \b at the gap before position i of s (between s[i-1] and s[i])
WordBoundary(s, i) ==
    LET left == i - 1 >= 1 /\ i - 1 <= Len(s) /\ IsWordChar(s[i - 1])
        right == i >= 1 /\ i <= Len(s) /\ IsWordChar(s[i])
    IN  left # right

\* length of the match of r'\b<word>\.?\b' at position i, 0 when none; the
\* optional period is tried first (greedy) and given up when no boundary
\* follows it
ReplMatchLen(s, i, rep) ==
    LET n == Len(rep.word)
    IN  IF ~(MatchAt(s, i, rep.word) /\ WordBoundary(s, i)) THEN 0
        ELSE IF rep.dot /\ i + n <= Len(s) /\ s[i + n] = "."
                /\ WordBoundary(s, i + n + 1)
             THEN n + 1
             ELSE IF WordBoundary(s, i + n) THEN n ELSE 0

\* re.sub(pattern, replacement, s): all non-overlapping matches, left to right
RECURSIVE SubFrom(_, _, _)
SubFrom(s, i, rep) ==
    IF i > Len(s) THEN <<>>
    ELSE LET m == ReplMatchLen(s, i, rep)
         IN  IF m > 0 THEN rep.text \o SubFrom(s, i + m, rep)
             ELSE <<s[i]>> \o SubFrom(s, i + 1, rep)

RECURSIVE ApplyReplacements(_, _)
ApplyReplacements(s, k) ==
    IF k > Len(TitleReplacements) THEN s
    ELSE ApplyReplacements(SubFrom(s, 1, TitleReplacements[k]), k + 1)

normalize_title(title) ==
    Strip(CollapseSpaces(RemoveSpecial(
        ApplyReplacements(Strip(Lower(title)), 1), TRUE)))

(***************************************************************************)
(* Similarity: Levenshtein.ratio is the normalised indel similarity        *)
(* (len1 + len2 - indel) / (len1 + len2) with indel = len1 + len2 - 2*LCS. *)
(* A similarity is kept as an exact fraction <<num, den>> in lowest terms. *)
(***************************************************************************)
RECURSIVE Gcd(_, _)
Gcd(a, b) == IF b = 0 THEN a ELSE Gcd(b, a % b)

Frac(n, d) == LET g == Gcd(n, d) IN <<n \div g, d \div g>>

Zero == <<0, 1>>

\* one row of the longest-common-subsequence table: prev is the row of the
\* previous character of a, cur the row being built (index j + 1 is column j)
RECURSIVE LcsRow(_, _, _, _, _)
LcsRow(ai, b, prev, j, cur) ==
    IF j > Len(b) THEN cur
    ELSE LET v == IF ai = b[j] THEN prev[j] + 1
                  ELSE Max(prev[j + 1], cur[j])
             next == Append(cur, v)
         IN  IF Len(next) = j + 1 THEN LcsRow(ai, b, prev, j + 1, next) ELSE <<>>

RECURSIVE LcsRows(_, _, _, _)
LcsRows(a, b, i, prev) ==
    IF i > Len(a) THEN prev[Len(b) + 1]
    ELSE LET row == LcsRow(a[i], b, prev, 1, <<0>>)
         IN  IF Len(row) = Len(b) + 1 THEN LcsRows(a, b, i + 1, row) ELSE 0

Lcs(a, b) == LcsRows(a, b, 1, [j \in 1..(Len(b) + 1) |-> 0])

ratio(a, b) ==
    IF Len(a) + Len(b) = 0 THEN <<1, 1>>
    ELSE Frac(2 * Lcs(a, b), Len(a) + Len(b))

\* calculate_text_similarity without the test for an empty text
calculate_text_similarity_of_any(text1, text2) ==
    ratio(Strip(Lower(text1)), Strip(Lower(text2)))

calculate_text_similarity(text1, text2) ==
    IF text1 = <<>> \/ text2 = <<>> THEN Zero
    ELSE ratio(Strip(Lower(text1)), Strip(Lower(text2)))

(***************************************************************************)
(* is_duplicate_job                                                        *)
(***************************************************************************)
\* thresholds in percent, sample length in characters
TitleThresholdPct == 75

DescThresholdPct == 70

DescSampleLen == 1000

\* f < pct/100 and f >= pct/100 on exact fractions
FracLess(f, pct) == 100 * f[1] < pct * f[2]

FracAtLeast(f, pct) == ~FracLess(f, pct)

\* is_duplicate_job without its company test
is_duplicate_job_any_company(company1, title1, desc1, company2, title2, desc2) ==
    LET title_similarity ==
            calculate_text_similarity(normalize_title(title1), normalize_title(title2))
        desc_similarity ==
            calculate_text_similarity(Lower(Prefix(desc1, DescSampleLen)),
                                      Lower(Prefix(desc2, DescSampleLen)))
    IN  IF FracLess(title_similarity, TitleThresholdPct)
        THEN <<FALSE, title_similarity>>
        ELSE IF FracAtLeast(desc_similarity, DescThresholdPct)
             THEN <<TRUE, desc_similarity>>
             ELSE <<FALSE, desc_similarity>>

\* is_duplicate_job accepting identical descriptions only
is_duplicate_job_exact(company1, title1, desc1, company2, title2, desc2) ==
    LET title_similarity ==
            calculate_text_similarity(normalize_title(title1), normalize_title(title2))
        desc_similarity ==
            calculate_text_similarity(Lower(Prefix(desc1, DescSampleLen)),
                                      Lower(Prefix(desc2, DescSampleLen)))
    IN  IF normalize_company(company1) # normalize_company(company2)
        THEN <<FALSE, Zero>>
        ELSE IF FracLess(title_similarity, TitleThresholdPct)
             THEN <<FALSE, title_similarity>>
             ELSE IF desc1 = desc2 /\ FracAtLeast(desc_similarity, DescThresholdPct)
                  THEN <<TRUE, desc_similarity>>
                  ELSE <<FALSE, desc_similarity>>

\* is_duplicate_job without its description test
is_duplicate_job_no_desc_gate(company1, title1, desc1, company2, title2, desc2) ==
    LET title_similarity ==
            calculate_text_similarity(normalize_title(title1), normalize_title(title2))
        desc_similarity ==
            calculate_text_similarity(Lower(Prefix(desc1, DescSampleLen)),
                                      Lower(Prefix(desc2, DescSampleLen)))
    IN  IF normalize_company(company1) # normalize_company(company2)
        THEN <<FALSE, Zero>>
        ELSE IF FracLess(title_similarity, TitleThresholdPct)
             THEN <<FALSE, title_similarity>>
             ELSE <<TRUE, desc_similarity>>

\* is_duplicate_job: (is_duplicate, similarity)
is_duplicate_job(company1, title1, desc1, company2, title2, desc2) ==
    LET norm_company1 == normalize_company(company1)
        norm_company2 == normalize_company(company2)
        norm_title1 == normalize_title(title1)
        norm_title2 == normalize_title(title2)
        title_similarity == calculate_text_similarity(norm_title1, norm_title2)
        desc_sample1 == Lower(Prefix(desc1, DescSampleLen))
        desc_sample2 == Lower(Prefix(desc2, DescSampleLen))
        desc_similarity == calculate_text_similarity(desc_sample1, desc_sample2)
    IN  IF norm_company1 # norm_company2 THEN <<FALSE, Zero>>
        ELSE IF FracLess(title_similarity, TitleThresholdPct)
             THEN <<FALSE, title_similarity>>
             ELSE IF FracAtLeast(desc_similarity, DescThresholdPct)
                  THEN <<TRUE, desc_similarity>>
                  ELSE <<FALSE, desc_similarity>>

(***************************************************************************)
(* Query parser: extract_exclusion_terms, tokenize_for_search              *)
(***************************************************************************)
\* length of the maximal run of \w characters of s from position i on
RECURSIVE WordRunLen(_, _)
WordRunLen(s, i) ==
    IF i <= Len(s) /\ IsWordChar(s[i]) THEN 1 + WordRunLen(s, i + 1) ELSE 0

\* length of the maximal run of \d characters of s from position i on
RECURSIVE DigitRunLen(_, _)
DigitRunLen(s, i) ==
    IF i <= Len(s) /\ IsDigitChar(s[i]) THEN 1 + DigitRunLen(s, i + 1) ELSE 0

\* a match of r'-(\w+)' starts at position i
ExclusionAt(s, i) == s[i] = "-" /\ WordRunLen(s, i + 1) > 0

\* the lowercased groups of re.finditer(r'-(\w+)', query), in order
RECURSIVE ExclusionTerms(_, _)
ExclusionTerms(s, i) ==
    IF i > Len(s) THEN <<>>
    ELSE IF ExclusionAt(s, i)
         THEN LET n == WordRunLen(s, i + 1)
              IN  <<Lower(SubSeq(s, i + 1, i + n))>> \o ExclusionTerms(s, i + 1 + n)
         ELSE ExclusionTerms(s, i + 1)

\* re.sub(r'-(\w+)', '', query)
RECURSIVE RemoveExclusions(_, _)
RemoveExclusions(s, i) ==
    IF i > Len(s) THEN <<>>
    ELSE IF ExclusionAt(s, i)
         THEN RemoveExclusions(s, i + 1 + WordRunLen(s, i + 1))
         ELSE <<s[i]>> \o RemoveExclusions(s, i + 1)

\* extract_exclusion_terms without the collapse of whitespace
extract_exclusion_terms_no_collapse(query) ==
    [cleaned_query |-> Strip(RemoveExclusions(query, 1)),
     exclusion_terms |-> ExclusionTerms(query, 1)]

extract_exclusion_terms(query) ==
    [cleaned_query |-> CollapseSpaces(Strip(RemoveExclusions(query, 1))),
     exclusion_terms |-> ExclusionTerms(query, 1)]

\* length of the match of r'\d+(?:\.\d+)?|\w+' at position i, 0 when none
TokenLen(s, i) ==
    IF IsDigitChar(s[i])
    THEN LET d == DigitRunLen(s, i)
             frac == IF i + d <= Len(s) /\ s[i + d] = "."
                     THEN DigitRunLen(s, i + d + 1) ELSE 0
         IN  IF frac > 0 THEN d + 1 + frac ELSE d
    ELSE WordRunLen(s, i)

RECURSIVE FindTokens(_, _)
FindTokens(s, i) ==
    IF i > Len(s) THEN <<>>
    ELSE LET n == TokenLen(s, i)
         IN  IF n > 0 THEN <<SubSeq(s, i, i + n - 1)>> \o FindTokens(s, i + n)
             ELSE FindTokens(s, i + 1)

tokenize_for_search(text) == FindTokens(Lower(text), 1)

(***************************************************************************)
(* Inputs.  Optional[T] is a set with at most one element: {} is None.     *)
(***************************************************************************)
None == {}

Some(v) == {v}

Val(opt) == CHOOSE v \in opt : TRUE

\* a sample of the JobSourceInput values the API layer accepts
\*   1 and 2 are the same job seen by two sources (equal normalized keys,
\*   near-identical description); 3 has a similar but different normalized
\*   title; 4 a different company; 5 and 6 the keys of 1 with an empty
\*   description; 7 the keys of 1 with an unrelated description; 8 a title
\*   that normalizes to ""
Catalogue ==
    << [id |-> "1", source |-> "linkedin", company |-> <<"A", "c", "m", "e", " ", "I", "n", "c", ".">>,
        title |-> <<"S", "r", " ", "D", "e", "v">>,
        description |-> <<"G", "o", " ", "d", "e", "v">>, location |-> <<"N", "Y", "C">>,
        url |-> "u1", date_posted |-> 10],
       [id |-> "2", source |-> "indeed", company |-> <<"A", "C", "M", "E">>,
        title |-> <<"S", "e", "n", "i", "o", "r", " ", "D", "e", "v", "e", "l", "o", "p", "e", "r">>,
        description |-> <<"g", "o", " ", "d", "e", "v", "s">>, location |-> <<"R", "e", "m", "o", "t", "e">>,
        url |-> "u2", date_posted |-> 8],
       [id |-> "2", source |-> "linkedin", company |-> <<"A", "C", "M", "E">>,
        title |-> <<"S", "e", "n", "i", "o", "r", " ", "D", "e", "v", "e", "l", "o", "p", "e", "r", "s">>,
        description |-> <<"G", "o", " ", "d", "e", "v">>, location |-> <<"N", "Y", "C">>,
        url |-> "u3", date_posted |-> 2],
       [id |-> "1", source |-> "indeed", company |-> <<"B", "o", "l", "t">>,
        title |-> <<"S", "r", " ", "D", "e", "v">>,
        description |-> <<"G", "o", " ", "d", "e", "v">>, location |-> <<"R", "e", "m", "o", "t", "e">>,
        url |-> "u4", date_posted |-> 10],
       [id |-> "2", source |-> "linkedin", company |-> <<"A", "c", "m", "e", " ", "I", "n", "c", ".">>,
        title |-> <<"S", "r", " ", "D", "e", "v">>,
        description |-> <<>>, location |-> <<"N", "Y", "C">>,
        url |-> "u5", date_posted |-> 9],
       [id |-> "1", source |-> "indeed", company |-> <<"A", "C", "M", "E">>,
        title |-> <<"S", "e", "n", "i", "o", "r", " ", "D", "e", "v", "e", "l", "o", "p", "e", "r">>,
        description |-> <<>>, location |-> <<"R", "e", "m", "o", "t", "e">>,
        url |-> "u6", date_posted |-> 9],
       [id |-> "1", source |-> "indeed", company |-> <<"A", "C", "M", "E">>,
        title |-> <<"S", "r", " ", "D", "e", "v">>,
        description |-> <<"M", "L", " ", "o", "p", "s">>, location |-> <<"R", "e", "m", "o", "t", "e">>,
        url |-> "u7", date_posted |-> 5],
       [id |-> "2", source |-> "indeed", company |-> <<"A", "C", "M", "E">>,
        title |-> <<"!", "!">>,
        description |-> <<"G", "o", " ", "d", "e", "v">>, location |-> <<"N", "Y", "C">>,
        url |-> "u8", date_posted |-> 10],
       [id |-> "3", source |-> "linkedin", company |-> <<"A", "C", "M", "E">>,
        title |-> <<"S", "e", "n", "i", "o", "r", " ", "D", "e", "s", "i", "g", "n", "e", "r">>,
        description |-> <<"G", "o", " ", "d", "e", "v">>, location |-> <<"N", "Y", "C">>,
        url |-> "u9", date_posted |-> 6],
       [id |-> "4", source |-> "linkedin", company |-> <<"B", "o", "l", "t">>,
        title |-> <<"G", "o", " ", "D", "e", "v">>,
        description |-> <<"M", "L", " ", "o", "p", "s">>, location |-> <<"R", "e", "m", "o", "t", "e">>,
        url |-> "u10", date_posted |-> 10],
       [id |-> "5", source |-> "linkedin", company |-> <<"A", "C", "M", "E">>,
        title |-> <<"Q", "A">>,
        description |-> <<"a", "b", "c", "d">>, location |-> <<"N", "Y", "C">>,
        url |-> "u11", date_posted |-> 10],
       [id |-> "6", source |-> "linkedin", company |-> <<"A", "C", "M", "E">>,
        title |-> <<"Q", "A">>,
        description |-> <<"b", "c", "d", "e", "f">>, location |-> <<"N", "Y", "C">>,
        url |-> "u12", date_posted |-> 10],
       [id |-> "7", source |-> "linkedin", company |-> <<"A", "C", "M", "E">>,
        title |-> <<"Q", "A">>,
        description |-> <<"a", "b", "c", "d", "e", "f">>, location |-> <<"N", "Y", "C">>,
        url |-> "u13", date_posted |-> 10] >>

\* the longest batch of a request
MaxBatch == 2

\* the most rows of the table "jobs", committed or pending
MaxJobs == 3

\* the most requests POST /jobs/ingest of a behaviour
MaxCalls == 2

Sources == {"linkedin", "indeed"}

BatchesOf(P) ==
    {b \in UNION {[1..n -> P] : n \in 1..MaxBatch} :
        \A i, j \in DOMAIN b : b[i] = b[j] => i = j}

Sessions == {1, 2}

\* the functions of app/utils.py tabulated on the texts of the catalogue
NormCompanyOf ==
    [c \in {Catalogue[k].company : k \in DOMAIN Catalogue} |-> normalize_company(c)]

NormTitleOf ==
    [t \in {Catalogue[k].title : k \in DOMAIN Catalogue} |-> normalize_title(t)]

DedupKeys ==
    {<<NormCompanyOf[Catalogue[k].company], NormTitleOf[Catalogue[k].title],
       Catalogue[k].description>> : k \in DOMAIN Catalogue}

IsDuplicateOf ==
    [a \in DedupKeys, b \in DedupKeys |->
        is_duplicate_job(a[1], a[2], a[3], b[1], b[2], b[3])]

\* is_duplicate_job on the fields of two postings of the catalogue
IsDuplicateCallOf ==
    [a \in {Catalogue[k] : k \in DOMAIN Catalogue},
     b \in {Catalogue[k] : k \in DOMAIN Catalogue} |->
        is_duplicate_job(a.company, a.title, a.description,
                         b.company, b.title, b.description)]

(***************************************************************************)
(* State                                                                   *)
(*   jobs, job_sources  the committed rows of the tables "jobs" and        *)
(*                      "job_sources", in insertion order                  *)
(*   search_call        the request GET /jobs/search being answered         *)
(*   dup_call           the last direct call of is_duplicate_job            *)
(*   calls              the number of ingest requests so far                *)
(*   applications       the committed rows of the table "applications"       *)
(*   app_call           one application request per client: its position    *)
(*                      in the handler, or the status of its last answer    *)
(*   parse_call         the last direct call of extract_exclusion_terms     *)
(*   boost_call         the last direct call of _get_recency_boost          *)
(*   session            one AsyncSession per request in flight: the        *)
(*                      position of ingest_jobs in its loop, its local     *)
(*                      counters, and the rows it has written inside its   *)
(*                      still open transaction                             *)
(* The storage is read committed: a session reads the committed rows and   *)
(* its own writes.  The unique index idx_source_job_id rejects an INSERT   *)
(* whose key is already visible to the session, and a COMMIT whose key has *)
(* been committed by another session in the meantime.                      *)
(***************************************************************************)
VARIABLES jobs, job_sources, session, calls, search_call, dup_call, parse_call,
          applications, app_call, boost_call

vars == <<jobs, job_sources, session, calls, search_call, dup_call, parse_call,
          applications, app_call, boost_call>>

NoSearch == [response |-> [status |-> "none"]]

NoDupCall == [result |-> <<>>]

\* no call of extract_exclusion_terms, no application request so far
NoParseCall == [result |-> <<>>]

NoAppCall == [pc |-> "idle", status |-> 0]

\* no call of _get_recency_boost so far
NoBoostCall == [result |-> -1]

NoResult == [status |-> "none", inserted |-> 0, merged |-> 0]

IdleSession ==
    [pc |-> "idle", source |-> "linkedin", jobs |-> <<>>, i |-> 1,
     inserted |-> 0, merged |-> 0, new_jobs |-> <<>>, new_links |-> <<>>,
     unflushed |-> 0, repeat |-> FALSE, candidates |-> <<>>,
     result |-> NoResult]

Init ==
    /\ jobs = <<>>
    /\ job_sources = <<>>
    /\ session = [s \in Sessions |-> IdleSession]
    /\ calls = 0
    /\ search_call = NoSearch
    /\ dup_call = NoDupCall
    /\ parse_call = NoParseCall
    /\ applications = <<>>
    /\ app_call = [s \in Sessions |-> NoAppCall]
    /\ boost_call = NoBoostCall

Range(f) == {f[k] : k \in DOMAIN f}

\* the key of the unique index idx_source_job_id
LinkKey(l) == <<l.source, l.source_job_id>>

\* a session that reads the committed rows only
VisibleJobsCommitted(s) == jobs

\* a session that also reads the rows other transactions have not committed
VisibleJobsUncommitted(s) ==
    jobs \o session[s].new_jobs
        \o (IF s = 1 THEN session[2].new_jobs ELSE session[1].new_jobs)

\* rows a session's queries return: committed rows and its own flushed rows
VisibleJobs(s) == jobs \o session[s].new_jobs

FlushedLinks(s) ==
    SubSeq(session[s].new_links, 1,
           Len(session[s].new_links) - session[s].unflushed)

VisibleLinks(s) == job_sources \o FlushedLinks(s)

\* the INSERT of the pending JobSource row violates the unique index
UniqueViolation(existing, l) == \E e \in Range(existing) : LinkKey(e) = LinkKey(l)

\* autoflush before a query: the row added by the previous iteration, if any,
\* is sent to the database
FlushFails(s) ==
    /\ session[s].unflushed = 1
    /\ UniqueViolation(VisibleLinks(s),
                       session[s].new_links[Len(session[s].new_links)])

\* a COMMIT that does not check the keys against the rows committed meanwhile
CommitFailsNoRecheck(s) ==
    /\ session[s].unflushed = 1
    /\ UniqueViolation(job_sources \o SubSeq(session[s].new_links, 1,
                                             Len(session[s].new_links) - 1),
                       session[s].new_links[Len(session[s].new_links)])

\* COMMIT: every key written by the transaction must still be free among the
\* committed rows, and the last pending row must pass its INSERT
CommitFails(s) ==
    \/ FlushFails(s)
    \/ \E k \in 1..Len(session[s].new_links) :
          UniqueViolation(job_sources, session[s].new_links[k])

\* a failed request without the rollback
NotRolledBack(committed, written) == committed \o written

\* what a failed request leaves in the database: get_db rolls the session back
RolledBack(committed, written) == committed

\* a COMMIT that replaces the rows of the table by the rows written
CommittedReplaces(committed, written) ==
    IF written = <<>> THEN committed ELSE written

\* what a successful COMMIT leaves in the database
Committed(committed, written) == committed \o written

\* uuid4: an identifier no row, committed or pending, carries
UsedJobIds ==
    {j.id : j \in Range(jobs)}
        \cup UNION {{j.id : j \in Range(session[s].new_jobs)} : s \in Sessions}

FreshJobId == CHOOSE n \in 1..(Cardinality(UsedJobIds) + 1) : n \notin UsedJobIds

TotalJobs ==
    Len(jobs) + Cardinality(UNION {{j.id : j \in Range(session[s].new_jobs)} : s \in Sessions})

(***************************************************************************)
(* JobCRUD                                                                 *)
(***************************************************************************)
\* _get_job_source: the rows with this key among the rows the query sees
_get_job_source(links, source, source_job_id) ==
    {l \in Range(links) : l.source = source /\ l.source_job_id = source_job_id}

\* the orders in which a SELECT without ORDER BY may return the rows of S
FetchOrders(S) ==
    {f \in [1..Cardinality(S) -> S] : \A a, b \in DOMAIN f : f[a] = f[b] => a = b}

\* the candidate rows of _find_duplicate
Candidates(s, norm_company, norm_title) ==
    {j \in Range(VisibleJobs(s)) :
        j.normalized_company = norm_company /\ j.normalized_title = norm_title}

\* _find_duplicate with the test of is_duplicate inverted
_find_duplicate_inverted(norm_company, norm_title, description, candidates) ==
    LET hits == {k \in 1..Len(candidates) :
                    ~IsDuplicateOf[<<norm_company, norm_title, description>>,
                                   <<candidates[k].normalized_company,
                                     candidates[k].normalized_title,
                                     candidates[k].description>>][1]}
    IN  IF hits = {} THEN {}
        ELSE {candidates[CHOOSE k \in hits : \A h \in hits : k <= h]}

\* _find_duplicate returning the candidate of the highest similarity among
\* those is_duplicate_job accepts
_find_duplicate_best(norm_company, norm_title, description, candidates) ==
    LET Of(k) == IsDuplicateOf[<<norm_company, norm_title, description>>,
                               <<candidates[k].normalized_company,
                                 candidates[k].normalized_title,
                                 candidates[k].description>>]
        hits == {k \in 1..Len(candidates) : Of(k)[1]}
    IN  IF hits = {} THEN None
        ELSE Some(candidates[CHOOSE k \in hits :
                     \A h \in hits :
                        Of(h)[2][1] * Of(k)[2][2] <= Of(k)[2][1] * Of(h)[2][2]])

\* _find_duplicate on the fetched candidates: the first one is_duplicate_job
\* accepts, None when there is none
_find_duplicate(norm_company, norm_title, description, candidates) ==
    LET hits == {k \in 1..Len(candidates) :
                    IsDuplicateOf[<<norm_company, norm_title, description>>,
                                  <<candidates[k].normalized_company,
                                    candidates[k].normalized_title,
                                    candidates[k].description>>][1]}
    IN  IF hits = {} THEN None
        ELSE Some(candidates[CHOOSE k \in hits : \A h \in hits : k <= h])

\* _add_job_source
_add_job_source(job_id, source, source_job_id, url) ==
    [job_id |-> job_id, source |-> source, source_job_id |-> source_job_id,
     url |-> url]

\* the Job row and the JobSource row of _create_job
NewJob(job_input, norm_company, norm_title, id) ==
    [id |-> id, normalized_company |-> norm_company,
     normalized_title |-> norm_title, original_title |-> job_input.title,
     description |-> job_input.description, location |-> job_input.location,
     date_posted |-> job_input.date_posted]

\* _create_job without the flush that assigns job.id before the link is added
_create_job_unflushed(job_input, norm_company, norm_title, id) ==
    [job |-> NewJob(job_input, norm_company, norm_title, id),
     link |-> _add_job_source(0, job_input.source, job_input.id, job_input.url)]

_create_job(job_input, norm_company, norm_title, id) ==
    [job |-> NewJob(job_input, norm_company, norm_title, id),
     link |-> _add_job_source(id, job_input.source, job_input.id, job_input.url)]

\* a request POST /jobs/ingest arrives and ingest_jobs starts
IngestStart(s, source, batch) ==
    /\ session[s].pc = "idle"
    /\ session' = [session EXCEPT ![s] =
          [IdleSession EXCEPT !.pc = "loop", !.source = source, !.jobs = batch]]
    /\ calls' = calls + 1
    /\ UNCHANGED <<jobs, job_sources, search_call, dup_call, parse_call, applications, app_call, boost_call>>

\* the client sends the request it has just got an answer to once more
Redeliver(s) ==
    /\ session[s].pc = "done"
    /\ session[s].result.status = "ok"
    /\ session' = [session EXCEPT ![s] =
          [IdleSession EXCEPT !.pc = "loop", !.source = session[s].source,
                              !.jobs = session[s].jobs, !.repeat = TRUE]]
    /\ calls' = calls + 1
    /\ UNCHANGED <<jobs, job_sources, search_call, dup_call, parse_call, applications, app_call, boost_call>>

\* the response has been sent and get_db closes the session
Close(s) ==
    /\ session[s].pc = "done"
    /\ session' = [session EXCEPT ![s] = IdleSession]
    /\ UNCHANGED <<jobs, job_sources, calls, search_call, dup_call, parse_call, applications, app_call, boost_call>>

\* the request fails: the exception leaves ingest_jobs and get_db rolls back
Failed(s) ==
    [session[s] EXCEPT !.pc = "done", !.new_jobs = <<>>, !.new_links = <<>>,
                       !.unflushed = 0,
                       !.result = [status |-> "error", inserted |-> 0, merged |-> 0]]

\* top of the loop: the idempotency check of the next posting.  The query
\* first flushes the JobSource row the previous iteration added.
CheckSource(s) ==
    LET me == session[s]
        job_input == me.jobs[me.i]
        existing_source ==
            _get_job_source(job_sources \o me.new_links, me.source, job_input.id)
    IN  /\ me.pc = "loop"
        /\ me.i <= Len(me.jobs)
        /\ IF FlushFails(s)
           THEN /\ session' = [session EXCEPT ![s] = Failed(s)]
                /\ jobs' = RolledBack(jobs, me.new_jobs)
                /\ job_sources' = RolledBack(job_sources, me.new_links)
           ELSE /\ session' = [session EXCEPT ![s] =
                      IF existing_source # {}
                      THEN [me EXCEPT !.unflushed = 0, !.i = me.i + 1]
                      ELSE [me EXCEPT !.unflushed = 0, !.pc = "dedup"]]
                /\ UNCHANGED <<jobs, job_sources>>
        /\ UNCHANGED <<calls, search_call, dup_call, parse_call, applications, app_call, boost_call>>

\* the rest of the iteration: normalize, scan the candidates, merge or insert
Deduplicate(s) ==
    LET me == session[s]
        job_input == me.jobs[me.i]
        norm_company == NormCompanyOf[job_input.company]
        norm_title == NormTitleOf[job_input.title]
    IN  /\ me.pc = "dedup"
        /\ \E fetched \in FetchOrders(Candidates(s, norm_company, norm_title)) :
              LET duplicate_job ==
                      _find_duplicate(norm_company, norm_title,
                                      job_input.description, fetched)
                  created == _create_job(job_input, norm_company, norm_title,
                                         FreshJobId)
              IN  IF duplicate_job # None
                  THEN session' = [session EXCEPT ![s] =
                          [me EXCEPT !.new_links = Append(me.new_links,
                                        _add_job_source(Val(duplicate_job).id,
                                            me.source, job_input.id, job_input.url)),
                                     !.candidates = fetched,
                                     !.unflushed = 1,
                                     !.merged = me.merged + 1,
                                     !.i = me.i + 1,
                                     !.pc = "loop"]]
                  ELSE /\ TotalJobs < MaxJobs
                       /\ session' = [session EXCEPT ![s] =
                             [me EXCEPT !.new_jobs = Append(me.new_jobs, created.job),
                                        !.new_links = Append(me.new_links, created.link),
                                        !.candidates = fetched,
                                        !.unflushed = 1,
                                        !.inserted = me.inserted + 1,
                                        !.i = me.i + 1,
                                        !.pc = "loop"]]
        /\ UNCHANGED <<jobs, job_sources, calls, search_call, dup_call, parse_call, applications, app_call, boost_call>>

\* after the loop: session.commit() and the return of (inserted, merged)
Commit(s) ==
    LET me == session[s]
    IN  /\ me.pc = "loop"
        /\ me.i > Len(me.jobs)
        /\ IF CommitFails(s)
           THEN /\ session' = [session EXCEPT ![s] = Failed(s)]
                /\ jobs' = RolledBack(jobs, me.new_jobs)
                /\ job_sources' = RolledBack(job_sources, me.new_links)
           ELSE /\ session' = [session EXCEPT ![s] =
                      [me EXCEPT !.pc = "done", !.new_jobs = <<>>,
                                 !.new_links = <<>>, !.unflushed = 0,
                                 !.result = [status |-> "ok",
                                             inserted |-> me.inserted,
                                             merged |-> me.merged]]]
                /\ jobs' = Committed(jobs, me.new_jobs)
                /\ job_sources' = Committed(job_sources, me.new_links)
        /\ UNCHANGED <<calls, search_call, dup_call, parse_call, applications, app_call, boost_call>>

(***************************************************************************)
(* ApplicationCRUD                                                         *)
(***************************************************************************)
\* select(Application).filter(Application.job_id == job_id) and
\* scalar_one_or_none: the row of the job, None when there is none
ApplicationOf(rows, job_id) == {r \in Range(rows) : r.job_id = job_id}

\* the positions of the rows with primary key id
RowsWithId(rows, id) == {k \in 1..Len(rows) : rows[k].id = id}

\* uuid4: a primary key no row carries and no request in flight has loaded
UsedAppIds ==
    {r.id : r \in Range(applications)}
        \cup UNION {IF app_call[s].pc = "idle" THEN {}
                    ELSE {r.id : r \in app_call[s].found} : s \in Sessions}

FreshAppId == CHOOSE n \in 1..(Cardinality(UsedAppIds) + 1) : n \notin UsedAppIds

NewApplication(job_id, app_data, id) ==
    [id |-> id, job_id |-> job_id, status |-> app_data.status,
     notes |-> app_data.notes]

\* the attributes the unit of work writes: those set to another value than
\* the one the row was loaded with
Assigned(row, loaded, app_data) ==
    [row EXCEPT !.status = IF app_data.status # loaded.status
                           THEN app_data.status ELSE @,
                !.notes = IF app_data.notes # None /\ app_data.notes # loaded.notes
                          THEN app_data.notes ELSE @]

\* create_or_update on a table without the unique constraint on job_id
create_or_update_no_unique(rows, job_id, app_data, found, id) ==
    IF found # None
    THEN IF RowsWithId(rows, Val(found).id) = {}
         THEN [raised |-> TRUE, rows |-> rows]
         ELSE LET k == CHOOSE k \in RowsWithId(rows, Val(found).id) : TRUE
              IN  [raised |-> FALSE,
                   rows |-> [rows EXCEPT ![k] = Assigned(@, Val(found), app_data)]]
    ELSE [raised |-> FALSE,
          rows |-> Append(rows, NewApplication(job_id, app_data, id))]

\* create_or_update that writes the status only when it creates the row
create_or_update_keeps_status(rows, job_id, app_data, found, id) ==
    IF found # None
    THEN [raised |-> RowsWithId(rows, Val(found).id) = {}, rows |-> rows]
    ELSE IF ApplicationOf(rows, job_id) # {}
         THEN [raised |-> TRUE, rows |-> rows]
         ELSE [raised |-> FALSE,
               rows |-> Append(rows, NewApplication(job_id, app_data, id))]

\* create_or_update from the branch on the row it has selected to its commit
\* and refresh: `found` is the row the SELECT returned.  The UPDATE and the
\* refresh of a row another request has deleted meanwhile raise, and so does
\* the INSERT of a second row for the job (job_id is unique); `rows` is the
\* table after the commit or the rollback.
create_or_update(rows, job_id, app_data, found, id) ==
    IF found # None
    THEN IF RowsWithId(rows, Val(found).id) = {}
         THEN [raised |-> TRUE, rows |-> rows]
         ELSE LET k == CHOOSE k \in RowsWithId(rows, Val(found).id) : TRUE
              IN  [raised |-> FALSE,
                   rows |-> [rows EXCEPT ![k] = Assigned(@, Val(found), app_data)]]
    ELSE IF ApplicationOf(rows, job_id) # {}
         THEN [raised |-> TRUE, rows |-> rows]
         ELSE [raised |-> FALSE,
               rows |-> Append(rows, NewApplication(job_id, app_data, id))]

\* delete that removes every row of the table
delete_all(rows, id) == <<>>

\* session.delete(application) and the commit: the table without the row
\* (a row already gone is a warning, not an error)
delete(rows, id) == SelectSeq(rows, LAMBDA r : r.id # id)

\* the answer to an application request
Answer(status) == [pc |-> "idle", status |-> status]

\* POST /applications/{job_id} arrives: _get_job_by_id, then the SELECT of
\* create_or_update
CreateOrUpdateApplication(s, job_id, app_data) ==
    /\ app_call[s].pc = "idle"
    /\ app_call' = [app_call EXCEPT ![s] =
          IF \A j \in Range(jobs) : j.id # job_id
          THEN Answer(404)
          ELSE [pc |-> "selected", status |-> 0, job_id |-> job_id,
                app_data |-> app_data,
                found |-> ApplicationOf(applications, job_id)]]
    /\ UNCHANGED <<jobs, job_sources, session, calls, search_call, dup_call,
                   parse_call, applications, boost_call>>

\* the rest of create_or_update and the answer of the endpoint
WriteApplication(s) ==
    LET me == app_call[s]
        done == create_or_update(applications, me.job_id, me.app_data, me.found,
                                 FreshAppId)
    IN  /\ me.pc = "selected"
        /\ applications' = done.rows
        /\ app_call' = [app_call EXCEPT ![s] =
              Answer(IF done.raised THEN 500 ELSE 200)]
        /\ UNCHANGED <<jobs, job_sources, session, calls, search_call, dup_call,
                       parse_call, boost_call>>

\* DELETE /applications/{job_id} arrives: the SELECT of delete
DeleteApplication(s, job_id) ==
    /\ app_call[s].pc = "idle"
    /\ app_call' = [app_call EXCEPT ![s] =
          IF ApplicationOf(applications, job_id) = {}
          THEN Answer(404)
          ELSE [pc |-> "deleting", status |-> 0, job_id |-> job_id,
                found |-> ApplicationOf(applications, job_id)]]
    /\ UNCHANGED <<jobs, job_sources, session, calls, search_call, dup_call,
                   parse_call, applications, boost_call>>

\* the rest of delete and the answer of the endpoint
RemoveApplication(s) ==
    /\ app_call[s].pc = "deleting"
    /\ applications' = delete(applications, Val(app_call[s].found).id)
    /\ app_call' = [app_call EXCEPT ![s] = Answer(200)]
    /\ UNCHANGED <<jobs, job_sources, session, calls, search_call, dup_call,
                   parse_call, boost_call>>

(***************************************************************************)
(* JobSearchEngine                                                         *)
(***************************************************************************)
\* Python's truth value of an Optional[str] and of an Optional[int]
TruthyStr(opt) == opt # None /\ Val(opt) # <<>>

TruthyInt(opt) == opt # None /\ Val(opt) # 0

\* Python's seq[start:stop]
PyIndex(n, len) == IF n < 0 THEN Max(n + len, 0) ELSE Min(n, len)

PySlice(seq, start, stop) ==
    SubSeq(seq, PyIndex(start, Len(seq)) + 1, PyIndex(stop, Len(seq)))

\* number of occurrences of term in tokens: list.count
Count(tokens, term) == Cardinality({k \in 1..Len(tokens) : tokens[k] = term})

\* math.log(1 + tf) in units of 1/100000
Ln1p(tf) ==
    CASE tf = 1 -> 69315 [] tf = 2 -> 109861 [] tf = 3 -> 138629
      [] tf = 4 -> 160944 [] tf = 5 -> 179176 [] tf = 6 -> 194591

ScoreUnit == 100000

TitleWeight == 1

DescWeight == 3

RecencyDays == 7

\* _get_recency_boost in units of 1/(2 * RecencyDays): the boost is
\* 0.5 * (1 - days_ago / 7) = (7 - days_ago) / 14 within the window
_get_recency_boost(date_posted, now) ==
    LET days_ago == now - date_posted
    IN  IF days_ago <= RecencyDays THEN RecencyDays - days_ago ELSE 0

\* the sum over the search terms of weight * log(1 + tf), in units of 1/100000
RECURSIVE TermScore(_, _, _, _)
TermScore(tokens, search_terms, k, weight) ==
    IF k > Len(search_terms) THEN 0
    ELSE LET tf == Count(tokens, search_terms[k])
         IN  (IF tf > 0 THEN weight * Ln1p(tf) ELSE 0)
                 + TermScore(tokens, search_terms, k + 1, weight)

\* _calculate_relevance without the exclusion test
_calculate_relevance_no_exclusion(job, search_terms, exclusion_terms, now) ==
    LET n == Len(search_terms)
        relevance ==
            TermScore(tokenize_for_search(job.original_title), search_terms, 1,
                      TitleWeight)
                + TermScore(tokenize_for_search(job.description), search_terms, 1,
                            DescWeight)
        recency_boost == _get_recency_boost(job.date_posted, now)
    IN  IF n = 0 THEN {recency_boost * ScoreUnit}
        ELSE IF relevance = 0 THEN {}
             ELSE {2 * RecencyDays * relevance + n * recency_boost * ScoreUnit}

\* _calculate_relevance keeping the jobs that match no search term
_calculate_relevance_unmatched_kept(job, search_terms, exclusion_terms, now) ==
    LET n == Len(search_terms)
        job_text == Lower(job.original_title \o <<" ">> \o job.description)
        relevance ==
            TermScore(tokenize_for_search(job.original_title), search_terms, 1,
                      TitleWeight)
                + TermScore(tokenize_for_search(job.description), search_terms, 1,
                            DescWeight)
        recency_boost == _get_recency_boost(job.date_posted, now)
    IN  IF n = 0 THEN {recency_boost * ScoreUnit}
        ELSE IF \E k \in 1..Len(exclusion_terms) :
                    Contains(job_text, exclusion_terms[k])
             THEN {}
             ELSE {2 * RecencyDays * relevance + n * recency_boost * ScoreUnit}

\* _calculate_relevance testing the exclusion terms before the search terms
_calculate_relevance_excludes_first(job, search_terms, exclusion_terms, now) ==
    LET n == Len(search_terms)
        job_text == Lower(job.original_title \o <<" ">> \o job.description)
        relevance ==
            TermScore(tokenize_for_search(job.original_title), search_terms, 1,
                      TitleWeight)
                + TermScore(tokenize_for_search(job.description), search_terms, 1,
                            DescWeight)
        recency_boost == _get_recency_boost(job.date_posted, now)
    IN  IF \E k \in 1..Len(exclusion_terms) :
              Contains(job_text, exclusion_terms[k])
        THEN {}
        ELSE IF n = 0 THEN {recency_boost * ScoreUnit}
             ELSE IF relevance = 0 THEN {}
                  ELSE {2 * RecencyDays * relevance + n * recency_boost * ScoreUnit}

\* _calculate_relevance: None when the job is excluded, else the score.  All
\* scores of one search have the same number n of search terms; a score is
\* kept as the integer score * 2 * RecencyDays * max(n, 1) * ScoreUnit.
_calculate_relevance(job, search_terms, exclusion_terms, now) ==
    LET n == Len(search_terms)
        job_text == Lower(job.original_title \o <<" ">> \o job.description)
        title_tokens == tokenize_for_search(job.original_title)
        desc_tokens == tokenize_for_search(job.description)
        title_score == TermScore(title_tokens, search_terms, 1, TitleWeight)
        desc_score == TermScore(desc_tokens, search_terms, 1, DescWeight)
        relevance == title_score + desc_score
        recency_boost == _get_recency_boost(job.date_posted, now)
    IN  IF n = 0 THEN Some(recency_boost * ScoreUnit)
        ELSE IF \E k \in 1..Len(exclusion_terms) :
                    Contains(job_text, exclusion_terms[k])
             THEN None
             ELSE IF relevance = 0 THEN None
                  ELSE Some(2 * RecencyDays * relevance
                                + n * recency_boost * ScoreUnit)

\* the filter section of search: `filters` is the list that is initialised,
\* but the three coarse filters are appended to the builtin `filter`, which
\* has no attribute append: the statement raises AttributeError
CoarseFilters(company, location, days) ==
    [raised |-> TruthyStr(company) \/ TruthyStr(location) \/ TruthyInt(days),
     filters |-> <<>>]

\* the rows the statement selects: the join with job_sources when a source is
\* given, and the conjunction of `filters` (always empty, see above)
Selected(source) ==
    {j \in Range(jobs) :
        source # None =>
            \E l \in Range(job_sources) : l.job_id = j.id /\ l.source = Val(source)}

\* the sort without reverse = True: ascending, stable
RECURSIVE SortAsc(_)
SortAsc(seq) ==
    IF seq = <<>> THEN <<>>
    ELSE LET rest == SortAsc(SubSeq(seq, 1, Len(seq) - 1))
             x == seq[Len(seq)]
             before == {k \in 1..Len(rest) : rest[k].key <= x.key}
             cut == IF before = {} THEN 0
                    ELSE CHOOSE k \in before : \A h \in before : h <= k
         IN  SubSeq(rest, 1, cut) \o <<x>> \o SubSeq(rest, cut + 1, Len(rest))

\* no sort at all: the rows stay in the order the statement returned them
Unsorted(seq) == seq

\* list.sort(key = ..., reverse = True) on records carrying their key: the
\* sort is stable, equal keys keep the order of the list
RECURSIVE SortDesc(_)
SortDesc(seq) ==
    IF seq = <<>> THEN <<>>
    ELSE LET rest == SortDesc(SubSeq(seq, 1, Len(seq) - 1))
             x == seq[Len(seq)]
             before == {k \in 1..Len(rest) : rest[k].key >= x.key}
             cut == IF before = {} THEN 0
                    ELSE CHOOSE k \in before : \A h \in before : h <= k
         IN  SubSeq(rest, 1, cut) \o <<x>> \o SubSeq(rest, cut + 1, Len(rest))

\* search counting the jobs of the page instead of the survivors
search_total_of_page(query, company, location, days, source, sort, page, page_size, now, fetched) ==
    LET parsed == IF TruthyStr(query) THEN extract_exclusion_terms(Val(query))
                  ELSE [cleaned_query |-> <<>>, exclusion_terms |-> <<>>]
        exclusion_terms == parsed.exclusion_terms
        search_terms == IF TruthyStr(query)
                        THEN tokenize_for_search(parsed.cleaned_query)
                        ELSE <<>>
        scored == [k \in 1..Len(fetched) |->
                     [job |-> fetched[k],
                      score |-> _calculate_relevance(fetched[k], search_terms,
                                                     exclusion_terms, now)]]
        kept == SelectSeq(scored, LAMBDA x : x.score # None)
        scored_jobs == [k \in 1..Len(kept) |->
                          [job |-> kept[k].job, score |-> Val(kept[k].score)]]
        total == Len(scored_jobs)
        sorted == IF sort = "relevance" /\ search_terms # <<>>
                  THEN SortDesc([k \in 1..total |->
                          [job |-> scored_jobs[k].job, score |-> scored_jobs[k].score,
                           key |-> scored_jobs[k].score]])
                  ELSE SortDesc([k \in 1..total |->
                          [job |-> scored_jobs[k].job, score |-> scored_jobs[k].score,
                           key |-> scored_jobs[k].job.date_posted]])
        offset == (page - 1) * page_size
        paginated == PySlice(sorted, offset, offset + page_size)
    IN  IF CoarseFilters(company, location, days).raised
        THEN [status |-> "error", results |-> <<>>, total |-> 0]
        ELSE [status |-> "ok",
              results |-> [k \in 1..Len(paginated) |->
                             [job_id |-> paginated[k].job.id,
                              score |-> paginated[k].score]],
              total |-> Len(paginated)]

\* search on the rows in the order the statement returned them
search(query, company, location, days, source, sort, page, page_size, now, fetched) ==
    LET parsed == IF TruthyStr(query) THEN extract_exclusion_terms(Val(query))
                  ELSE [cleaned_query |-> <<>>, exclusion_terms |-> <<>>]
        exclusion_terms == parsed.exclusion_terms
        search_terms == IF TruthyStr(query)
                        THEN tokenize_for_search(parsed.cleaned_query)
                        ELSE <<>>
        scored == [k \in 1..Len(fetched) |->
                     [job |-> fetched[k],
                      score |-> _calculate_relevance(fetched[k], search_terms,
                                                     exclusion_terms, now)]]
        kept == SelectSeq(scored, LAMBDA x : x.score # None)
        scored_jobs == [k \in 1..Len(kept) |->
                          [job |-> kept[k].job, score |-> Val(kept[k].score)]]
        total == Len(scored_jobs)
        sorted == IF sort = "relevance" /\ search_terms # <<>>
                  THEN SortDesc([k \in 1..total |->
                          [job |-> scored_jobs[k].job, score |-> scored_jobs[k].score,
                           key |-> scored_jobs[k].score]])
                  ELSE SortDesc([k \in 1..total |->
                          [job |-> scored_jobs[k].job, score |-> scored_jobs[k].score,
                           key |-> scored_jobs[k].job.date_posted]])
        offset == (page - 1) * page_size
        paginated == PySlice(sorted, offset, offset + page_size)
    IN  IF CoarseFilters(company, location, days).raised
        THEN [status |-> "error", results |-> <<>>, total |-> 0]
        ELSE [status |-> "ok",
              results |-> [k \in 1..Len(paginated) |->
                             [job_id |-> paginated[k].job.id,
                              score |-> paginated[k].score]],
              total |-> total]

\* the most pages a client asks for, and the largest page
MaxPage == 2

MaxPageSize == 2

\* a search request that empties the tables it has read
SearchAndDelete(query, company, location, days, source, sort, page, page_size, now) ==
    /\ \E fetched \in FetchOrders(Selected(source)) :
          search_call' =
              [query |-> query, company |-> company, location |-> location,
               days |-> days, source |-> source, sort |-> sort, page |-> page,
               page_size |-> page_size, now |-> now, earlier |-> <<>>,
               response |-> search(query, company, location, days, source, sort,
                                   page, page_size, now, fetched)]
    /\ jobs' = <<>>
    /\ job_sources' = <<>>
    /\ applications' = <<>>
    /\ UNCHANGED <<session, calls, dup_call, parse_call, app_call, boost_call>>

\* the request asks for the page after the one the client has just got, with
\* the same parameters
Continues(query, company, location, days, source, sort, page, page_size, now) ==
    /\ search_call.response.status = "ok"
    /\ search_call.query = query
    /\ search_call.company = company
    /\ search_call.location = location
    /\ search_call.days = days
    /\ search_call.source = source
    /\ search_call.sort = sort
    /\ search_call.page_size = page_size
    /\ search_call.now = now
    /\ page = search_call.page + 1

\* GET /jobs/search: the parameters and the answer of the request; `earlier`
\* keeps the pages the client has got so far with these parameters
Search(query, company, location, days, source, sort, page, page_size, now) ==
    /\ \E fetched \in FetchOrders(Selected(source)) :
          search_call' =
              [query |-> query, company |-> company, location |-> location,
               days |-> days, source |-> source, sort |-> sort, page |-> page,
               page_size |-> page_size, now |-> now,
               earlier |-> IF Continues(query, company, location, days, source,
                                        sort, page, page_size, now)
                           THEN Append(search_call.earlier,
                                       search_call.response.results)
                           ELSE <<>>,
               response |-> search(query, company, location, days, source, sort,
                                   page, page_size, now, fetched)]
    /\ UNCHANGED <<jobs, job_sources, session, calls, dup_call, parse_call, applications, app_call, boost_call>>

\* the answer has been sent
SearchClose ==
    /\ search_call # NoSearch
    /\ search_call' = NoSearch
    /\ UNCHANGED <<jobs, job_sources, session, calls, dup_call, parse_call, applications, app_call, boost_call>>

\* a direct call of is_duplicate_job on the fields of two postings, as the
\* unit tests make it
IsDuplicateCall(a, b) ==
    /\ dup_call' =
          [company1 |-> a.company, title1 |-> a.title, desc1 |-> a.description,
           company2 |-> b.company, title2 |-> b.title, desc2 |-> b.description,
           result |-> IsDuplicateCallOf[a, b]]
    /\ UNCHANGED <<jobs, job_sources, session, calls, search_call, parse_call, applications,
                 app_call, boost_call>>

\* the caller has its answer
IsDuplicateReturn ==
    /\ dup_call # NoDupCall
    /\ dup_call' = NoDupCall
    /\ UNCHANGED <<jobs, job_sources, session, calls, search_call, parse_call, applications,
                 app_call, boost_call>>

\* a direct call of extract_exclusion_terms, as the unit tests make it
ParseCall(query) ==
    /\ parse_call' = [query |-> query, result |-> extract_exclusion_terms(query)]
    /\ UNCHANGED <<jobs, job_sources, session, calls, search_call, dup_call,
                   applications, app_call, boost_call>>

\* the caller has its answer
ParseReturn ==
    /\ parse_call # NoParseCall
    /\ parse_call' = NoParseCall
    /\ UNCHANGED <<jobs, job_sources, session, calls, search_call, dup_call,
                   applications, app_call, boost_call>>

\* a direct call of _get_recency_boost on a posting date, at the time `now`;
\* the result is the boost in units of 1/(2 * RecencyDays)
RecencyBoostCall(date_posted, now) ==
    /\ boost_call' = [date_posted |-> date_posted, now |-> now,
                      result |-> _get_recency_boost(date_posted, now)]
    /\ UNCHANGED <<jobs, job_sources, session, calls, search_call, dup_call,
                   parse_call, applications, app_call>>

(***************************************************************************)
(* Specifications                                                          *)
(***************************************************************************)
\* the postings of the catalogue each kind of client sends
SeqPostings == {Catalogue[k] : k \in {1, 2, 3, 5, 8}}

RacePostings == {Catalogue[k] : k \in {1, 2}}

DedupPostings == {Catalogue[k] : k \in {1, 2, 4}}

SearchPostings == {Catalogue[k] : k \in {1, 3, 4}}

\* the parameters of the search requests
Queries == {None, Some(<<"d", "e", "v">>), Some(<<"s", "r">>), Some(<<"d", "e", "v", " ", "-", "s", "r">>), Some(<<"-", "s", "r">>)}

CompanyFilters == {None, Some(<<"a", "c">>)}

LocationFilters == {None, Some(<<"n", "y">>)}

DayFilters == {None, Some(5)}

SourceFilters == {None, Some("indeed")}

Sorts == {"relevance", "date"}

\* datetime.now(UTC), in days
Nows == {10}

\* one client, one ingest request at a time, any batch of its postings
NextSeq ==
    \/ \E source \in Sources, batch \in BatchesOf(SeqPostings) :
          calls < MaxCalls /\ IngestStart(1, source, batch)
    \/ calls < MaxCalls /\ Redeliver(1)
    \/ Close(1)
    \/ CheckSource(1)
    \/ Deduplicate(1)
    \/ Commit(1)

SpecSeq == Init /\ [][NextSeq]_vars

\* one client that ingests and searches, one request at a time
\* (a search request carries at most one of company, location and days)
NextSearch ==
    \/ \E batch \in BatchesOf(SearchPostings) :
          /\ calls < MaxCalls
          /\ search_call = NoSearch
          /\ IngestStart(1, "linkedin", batch)
    \/ Close(1)
    \/ CheckSource(1)
    \/ Deduplicate(1)
    \/ Commit(1)
    \/ \E query \in Queries, company \in CompanyFilters,
          location \in LocationFilters, days \in DayFilters,
          source \in SourceFilters, sort \in Sorts, page \in 1..MaxPage,
          page_size \in 1..MaxPageSize, now \in Nows :
          /\ session[1].pc = "idle"
          /\ Cardinality(company \cup location) + Cardinality(days) <= 1
          /\ \/ search_call = NoSearch
             \/ Continues(query, company, location, days, source, sort, page,
                          page_size, now)
          /\ Search(query, company, location, days, source, sort, page,
                    page_size, now)
    \/ SearchClose

SpecSearch == Init /\ [][NextSearch]_vars

\* direct calls of JobSearchEngine.search, as the unit tests make them: no
\* coarse filter, any page number
EnginePostings == {Catalogue[k] : k \in {1, 3, 10}}

EngineQueries == {None, Some(<<"d", "e", "v">>), Some(<<"g", "o">>)}

NextEngine ==
    \/ \E batch \in BatchesOf(EnginePostings) :
          /\ calls < MaxCalls
          /\ search_call = NoSearch
          /\ IngestStart(1, "linkedin", batch)
    \/ Close(1)
    \/ CheckSource(1)
    \/ Deduplicate(1)
    \/ Commit(1)
    \/ \E query \in EngineQueries, sort \in Sorts,
          page \in (0 - MaxPage)..(MaxPage + 1), page_size \in 1..MaxPageSize,
          now \in Nows :
          /\ session[1].pc = "idle"
          /\ search_call = NoSearch
          /\ Search(query, None, None, None, None, sort, page, page_size, now)
    \/ SearchClose

SpecEngine == Init /\ [][NextEngine]_vars

\* one client that ingests, and direct calls of is_duplicate_job between
\* its requests
NextDedup ==
    \/ \E source \in Sources, batch \in BatchesOf(DedupPostings) :
          /\ calls < MaxCalls
          /\ dup_call = NoDupCall
          /\ IngestStart(1, source, batch)
    \/ Close(1)
    \/ CheckSource(1)
    \/ Deduplicate(1)
    \/ Commit(1)
    \/ \E a \in Range(Catalogue), b \in Range(Catalogue) :
          /\ session[1].pc = "idle"
          /\ dup_call = NoDupCall
          /\ IsDuplicateCall(a, b)
    \/ IsDuplicateReturn

SpecDedup == Init /\ [][NextDedup]_vars

\* searches at any moment of an ingest request, with application requests
\* in between
ReadOnlyPostings == {Catalogue[k] : k \in {1, 4}}

AppStatuses == {"Applied", "Interview"}

NextReadOnly ==
    \/ \E batch \in BatchesOf(ReadOnlyPostings) :
          calls < MaxCalls /\ IngestStart(1, "linkedin", batch)
    \/ Close(1)
    \/ CheckSource(1)
    \/ Deduplicate(1)
    \/ Commit(1)
    \/ \E job_id \in 1..Len(jobs), status \in AppStatuses :
          /\ session[1].pc = "idle"
          /\ CreateOrUpdateApplication(1, job_id, [status |-> status, notes |-> None])
    \/ WriteApplication(1)
    \/ \E job_id \in 1..Len(jobs) :
          /\ session[1].pc = "idle"
          /\ DeleteApplication(1, job_id)
    \/ RemoveApplication(1)
    \/ \E query \in {None, Some(<<"d", "e", "v">>)}, company \in CompanyFilters,
          source \in SourceFilters, page_size \in 1..MaxPageSize, now \in Nows :
          /\ search_call = NoSearch
          /\ Search(query, company, None, None, source, "relevance", 1,
                    page_size, now)
    \/ SearchClose

SpecReadOnly == Init /\ [][NextReadOnly]_vars

\* two clients that track applications at the same time, after the one
\* ingest request of the first; the second client sends no notes and asks
\* for the first job only
AppJobIds == {1, 2}

AppJobIdsOf(s) == IF s = 1 THEN AppJobIds ELSE {1}

AppNotes == {None, Some(<<"n">>)}

AppInputs ==
    {<<s, [status |-> status, notes |-> notes]>> :
        s \in Sessions, status \in AppStatuses, notes \in AppNotes}
        \ {<<2, [status |-> status, notes |-> Some(<<"n">>)]>> : status \in AppStatuses}

NextApps ==
    \/ \E batch \in BatchesOf(ReadOnlyPostings) :
          /\ calls = 0
          /\ \A s \in Sessions : app_call[s] = NoAppCall
          /\ IngestStart(1, "linkedin", batch)
    \/ Close(1)
    \/ CheckSource(1)
    \/ Deduplicate(1)
    \/ Commit(1)
    \/ \E input \in AppInputs, job_id \in AppJobIds :
          /\ session[1].pc = "idle"
          /\ job_id \in AppJobIdsOf(input[1])
          /\ CreateOrUpdateApplication(input[1], job_id, input[2])
    \/ \E s \in Sessions : WriteApplication(s)
    \/ \E s \in Sessions, job_id \in AppJobIds :
          /\ session[1].pc = "idle"
          /\ job_id \in AppJobIdsOf(s)
          /\ DeleteApplication(s, job_id)
    \/ \E s \in Sessions : RemoveApplication(s)

SpecApps == Init /\ [][NextApps]_vars

\* one client that ingests postings of one company and one title whose
\* descriptions resemble each other to different degrees
FirstMatchPostings == {Catalogue[k] : k \in {11, 12, 13}}

NextFirstMatch ==
    \/ \E batch \in BatchesOf(FirstMatchPostings) :
          calls < MaxCalls /\ IngestStart(1, "linkedin", batch)
    \/ Close(1)
    \/ CheckSource(1)
    \/ Deduplicate(1)
    \/ Commit(1)

SpecFirstMatch == Init /\ [][NextFirstMatch]_vars

\* one client that ingests postings without a description or without a
\* title that survives normalization, and one posting with both
TextlessPostings == {Catalogue[k] : k \in {1, 5, 6, 8}}

NextTextless ==
    \/ \E source \in Sources, batch \in BatchesOf(TextlessPostings) :
          calls < MaxCalls /\ IngestStart(1, source, batch)
    \/ Close(1)
    \/ CheckSource(1)
    \/ Deduplicate(1)
    \/ Commit(1)

SpecTextless == Init /\ [][NextTextless]_vars

\* the longest query string given to extract_exclusion_terms
MaxQueryLen == 6

\* a lowercase letter, an uppercase letter, the minus sign and the space
QueryChars == {"a", "B", "-", " "}

QueryStrings == UNION {[1..n -> QueryChars] : n \in 0..MaxQueryLen}

\* direct calls of extract_exclusion_terms on every string
NextParse ==
    \/ parse_call = NoParseCall /\ \E query \in QueryStrings : ParseCall(query)
    \/ ParseReturn

SpecParse == Init /\ [][NextParse]_vars

\* the latest day, counted from day 0, of a posting date and of a call
MaxDay == 12

\* direct calls of _get_recency_boost: any posting date, at any time
NextBoost ==
    \E now \in 0..MaxDay, date_posted \in 0..MaxDay :
        RecencyBoostCall(date_posted, now)

SpecBoost == Init /\ [][NextBoost]_vars

\* concurrent clients: two ingest requests in flight
Next ==
    \/ \E s \in Sessions, source \in Sources, batch \in BatchesOf(RacePostings) :
          calls < MaxCalls /\ IngestStart(s, source, batch)
    \/ \E s \in Sessions : calls < MaxCalls /\ Redeliver(s)
    \/ \E s \in Sessions : Close(s)
    \/ \E s \in Sessions : CheckSource(s)
    \/ \E s \in Sessions : Deduplicate(s)
    \/ \E s \in Sessions : Commit(s)

Spec == Init /\ [][Next]_vars

(***************************************************************************)
(* Properties of the ingestion pipeline                                    *)
(***************************************************************************)
\* the deduplication key of a posting and of a stored job
KeyOfPosting(p) == <<NormCompanyOf[p.company], NormTitleOf[p.title], p.description>>

KeyOfJob(j) == <<j.normalized_company, j.normalized_title, j.description>>

\* near-duplicates: same normalized company, normalized-title similarity of
\* at least 0.75 and description similarity of at least 0.70
NearDuplicate ==
    [a \in DedupKeys, b \in DedupKeys |->
        /\ a[1] = b[1]
        /\ FracAtLeast(calculate_text_similarity(a[2], b[2]), 75)
        /\ FracAtLeast(calculate_text_similarity(Lower(a[3]), Lower(b[3])), 70)]

\* the same job: near-duplicates with equal normalized titles
SameJob(a, b) == a[2] = b[2] /\ NearDuplicate[a, b]

KeyAbsent(source, source_job_id) ==
    \A l \in Range(job_sources) : LinkKey(l) # <<source, source_job_id>>

LinksOfJob(id) == {k \in 1..Len(job_sources) : job_sources[k].job_id = id}

\* the loop of ingest_jobs has processed the whole batch and has not committed
AtLoopEnd(s) == session[s].pc = "loop" /\ session[s].i > Len(session[s].jobs)

\* the step in which a request gets its answer
Answers(s) == session[s].pc # "done" /\ session'[s].pc = "done"

OkResult(inserted, merged) ==
    [status |-> "ok", inserted |-> inserted, merged |-> merged]

\* C1: the second of two identical ingest calls returns inserted = 0 and
\* merged = 0 and leaves the jobs and the source links as the first call left
\* them.
C1_ReingestIsIdempotent ==
    [][\A s \in Sessions :
          (session[s].repeat /\ Answers(s))
              => /\ session'[s].result = OkResult(0, 0)
                 /\ jobs' = jobs
                 /\ job_sources' = job_sources]_vars

\* C2: in every committed state no two source links share the pair
\* (source, source_job_id), whatever ingest calls ran, interleaved or failed.
C2_UniqueSourceKey ==
    \A a, b \in 1..Len(job_sources) :
        LinkKey(job_sources[a]) = LinkKey(job_sources[b]) => a = b

\* two concurrent calls wrote the same key: one has committed it, the other
\* has failed
C2_Witness ==
    \E s, t \in Sessions :
        /\ s # t
        /\ session[s].pc = "done" /\ session[s].result.status = "ok"
        /\ session[t].pc = "done" /\ session[t].result.status = "error"
        /\ \E l \in Range(job_sources), k \in 1..Len(session[s].jobs),
              h \in 1..Len(session[t].jobs) :
              /\ l.source_job_id = session[s].jobs[k].id
              /\ l.url = session[s].jobs[k].url
              /\ session[t].jobs[h] = session[s].jobs[k]

\* C6: a request that fails with a storage error leaves the committed jobs
\* and source links as they were, keeps none of the rows it wrote for the
\* earlier postings of its batch, and the committed rows change only by the
\* COMMIT of a whole batch.
C6_BatchAtomicity ==
    [][/\ \A s \in Sessions :
             (Answers(s) /\ session'[s].result.status = "error")
                 => /\ jobs' = jobs
                    /\ job_sources' = job_sources
                    /\ session'[s].new_jobs = <<>>
                    /\ session'[s].new_links = <<>>
       /\ (jobs' # jobs \/ job_sources' # job_sources)
             => \E s \in Sessions :
                   /\ AtLoopEnd(s)
                   /\ session'[s].result.status = "ok"
                   /\ jobs' = jobs \o session[s].new_jobs
                   /\ job_sources' = job_sources \o session[s].new_links]_vars

\* a request has failed at its k-th posting, k > 1, after it had inserted or
\* merged earlier postings
C6_Witness ==
    \E s \in Sessions :
        /\ session[s].pc = "done"
        /\ session[s].result.status = "error"
        /\ session[s].i > 1
        /\ session[s].i <= Len(session[s].jobs)
        /\ session[s].inserted + session[s].merged >= 1

\* no committed job is the same job as posting p
Unknown(p) == \A j \in Range(jobs) : ~SameJob(KeyOfPosting(p), KeyOfJob(j))

\* the batch of session s is two postings of one previously unknown job
TwoOfOneUnknownJob(s) ==
    LET me == session[s]
    IN  /\ Len(me.jobs) = 2
        /\ me.jobs[1].id # me.jobs[2].id
        /\ SameJob(KeyOfPosting(me.jobs[1]), KeyOfPosting(me.jobs[2]))
        /\ Unknown(me.jobs[1]) /\ Unknown(me.jobs[2])
        /\ KeyAbsent(me.source, me.jobs[1].id)
        /\ KeyAbsent(me.source, me.jobs[2].id)

\* C7: when a batch is two postings of the same previously unknown job, the
\* first is inserted and the second is merged into it: inserted = 1,
\* merged = 1, one new job carrying both source links.
C7_IntraBatchDedup ==
    (AtLoopEnd(1) /\ TwoOfOneUnknownJob(1))
        => /\ session[1].inserted = 1
           /\ session[1].merged = 1
           /\ Len(session[1].new_jobs) = 1
           /\ Len(session[1].new_links) = 2
           /\ \A l \in Range(session[1].new_links) :
                 l.job_id = session[1].new_jobs[1].id
           /\ ~CommitFails(1)

C7_Witness ==
    /\ AtLoopEnd(1)
    /\ TwoOfOneUnknownJob(1)
    /\ session[1].merged = 1
    /\ jobs # <<>>

\* C8: the candidate scan of a request sees the committed jobs and its own,
\* never the jobs another request in flight has not committed: when none of
\* those is accepted it inserts, so two concurrent requests delivering the
\* same unknown job under different keys both insert it and both commit.
C8_ScanIgnoresOtherRequests ==
    [][\A s \in Sessions :
          LET me == session[s]
              p == me.jobs[me.i]
          IN  (/\ me.pc = "dedup"
               /\ session'[s] # me
               /\ \A j \in Range(jobs) \cup Range(me.new_jobs) :
                     ~SameJob(KeyOfPosting(p), KeyOfJob(j)))
                  => /\ session'[s].inserted = me.inserted + 1
                     /\ session'[s].merged = me.merged]_vars

\* two committed jobs for one job, inserted by two requests that have both
\* succeeded
C8_Witness ==
    /\ \A s \in Sessions :
          /\ session[s].pc = "done"
          /\ session[s].result = OkResult(1, 0)
    /\ session[1].jobs[1].id # session[2].jobs[1].id
    /\ \E a, b \in 1..Len(jobs) :
          /\ a # b
          /\ jobs[a].id # jobs[b].id
          /\ SameJob(KeyOfJob(jobs[a]), KeyOfJob(jobs[b]))
          /\ LinksOfJob(jobs[a].id) # {}
          /\ LinksOfJob(jobs[b].id) # {}

\* the batch of session s is the single posting p, delivered under a key
\* the store does not hold, and the loop has processed it
Delivered(s, p) ==
    /\ AtLoopEnd(s)
    /\ session[s].jobs = <<p>>
    /\ KeyAbsent(session[s].source, p.id)

\* job a came from another source than the batch of session s, is a
\* near-duplicate of posting p, and is the only one in the store
OnlyNearDuplicate(s, p, a) ==
    /\ Cardinality(LinksOfJob(a.id)) = 1
    /\ \A k \in LinksOfJob(a.id) : job_sources[k].source # session[s].source
    /\ \A j \in Range(jobs) :
          NearDuplicate[KeyOfPosting(p), KeyOfJob(j)] <=> j = a

\* session s has merged posting p into job a and has inserted nothing
MergedInto(s, p, a) ==
    /\ session[s].inserted = 0
    /\ session[s].merged = 1
    /\ session[s].new_jobs = <<>>
    /\ session[s].new_links =
          <<[job_id |-> a.id, source |-> session[s].source,
             source_job_id |-> p.id, url |-> p.url]>>
    /\ ~CommitFails(s)

\* C3 as stated: after job A has been ingested from source S1, a posting from
\* source S2 with the same normalized company, normalized-title similarity of
\* at least 0.75 (the titles need not be equal) and description similarity of
\* at least 0.70 gives inserted = 0, merged = 1 and job A its second link.
C3_MergesNearDuplicate ==
    \A p \in SeqPostings, a \in Range(jobs) :
        (Delivered(1, p) /\ OnlyNearDuplicate(1, p, a)) => MergedInto(1, p, a)

\* C3 amended: the same, for a posting whose normalized title equals that of
\* job A.
C3_MergesNearDuplicateOfEqualTitle ==
    \A p \in SeqPostings, a \in Range(jobs) :
        (/\ Delivered(1, p)
         /\ OnlyNearDuplicate(1, p, a)
         /\ NormTitleOf[p.title] = a.normalized_title) => MergedInto(1, p, a)

\* a posting with another description than job A, similar enough, has been
\* merged into it
C3_Witness ==
    \E p \in SeqPostings, a \in Range(jobs) :
        /\ Delivered(1, p)
        /\ OnlyNearDuplicate(1, p, a)
        /\ NormTitleOf[p.title] = a.normalized_title
        /\ p.description # a.description
        /\ session[1].merged = 1

\* job a has the normalized company, the normalized title and the
\* description of posting p
SameKeys(p, a) == KeyOfJob(a) = KeyOfPosting(p)

\* posting p has been merged, and one job with its keys exists, carrying the
\* links it had and the new one
MergedIntoTheOnlyJob(s, p) ==
    /\ session[s].inserted = 0
    /\ session[s].merged = 1
    /\ session[s].new_jobs = <<>>
    /\ Cardinality({j \in Range(jobs) : SameKeys(p, j)}) = 1
    /\ \E j \in Range(jobs) :
          /\ SameKeys(p, j)
          /\ LinksOfJob(j.id) # {}
          /\ session[s].new_links =
                <<[job_id |-> j.id, source |-> session[s].source,
                   source_job_id |-> p.id, url |-> p.url]>>
    /\ ~CommitFails(s)

PostingsOfLink(l) == {q \in Range(Catalogue) : q.url = l.url}

\* C5: is_duplicate_job returns (False, 0.0) whenever the normalized
\* companies differ, and no source link, committed or pending, is attached
\* to a job whose normalized company differs from that of its posting.
C5_CompanyMismatchBlocksMerge ==
    /\ (/\ dup_call # NoDupCall
         /\ NormCompanyOf[dup_call.company1] # NormCompanyOf[dup_call.company2])
           => dup_call.result = <<FALSE, <<0, 1>>>>
    /\ \A s \in Sessions :
          \A l \in Range(job_sources) \cup Range(session[s].new_links) :
              \A j \in Range(jobs) \cup Range(session[s].new_jobs) :
                  \A q \in PostingsOfLink(l) :
                      j.id = l.job_id
                          => j.normalized_company = NormCompanyOf[q.company]

\* is_duplicate_job has been called on the same title and description under
\* two companies, and the store holds that job once for each company
C5_Witness ==
    /\ dup_call # NoDupCall
    /\ NormCompanyOf[dup_call.company1] # NormCompanyOf[dup_call.company2]
    /\ dup_call.title1 = dup_call.title2
    /\ dup_call.desc1 = dup_call.desc2
    /\ dup_call.desc1 # <<>>
    /\ \E a, b \in Range(jobs) :
          /\ a.normalized_company # b.normalized_company
          /\ a.normalized_title = b.normalized_title
          /\ a.description = b.description
          /\ LinksOfJob(a.id) # {}
          /\ LinksOfJob(b.id) # {}

(***************************************************************************)
(* Properties of the search                                                *)
(***************************************************************************)
\* the exclusion terms and the search terms of the queries
ExcludedTermsOf ==
    [q \in Queries \cup EngineQueries |->
        IF q = None THEN <<>> ELSE extract_exclusion_terms(Val(q)).exclusion_terms]

SearchTermsOf ==
    [q \in Queries \cup EngineQueries |->
        IF q = None THEN <<>>
        ELSE tokenize_for_search(extract_exclusion_terms(Val(q)).cleaned_query)]

\* the lowercased title or description of job j contains the term w
Mentions(j, w) ==
    Contains(Lower(j.original_title), w) \/ Contains(Lower(j.description), w)

\* the jobs of the page the search has returned
Returned == {j \in Range(jobs) :
               \E k \in 1..Len(search_call.response.results) :
                   search_call.response.results[k].job_id = j.id}

\* no job mentioning an exclusion term of the query is returned or counted
NoExcludedJob ==
    LET terms == ExcludedTermsOf[search_call.query]
        clean == {j \in Range(jobs) :
                    \A k \in 1..Len(terms) : ~Mentions(j, terms[k])}
    IN  /\ Returned \subseteq clean
        /\ search_call.response.total <= Cardinality(clean)

PassesCoarseFilters(j) ==
    /\ search_call.company # None
          => Contains(j.normalized_company, Lower(Val(search_call.company)))
    /\ search_call.location # None
          => Contains(Lower(j.location), Lower(Val(search_call.location)))
    /\ search_call.days # None
          => j.date_posted >= search_call.now - Val(search_call.days)

\* C10: a search with company, location or days supplied completes without
\* error, and the jobs it scores are those that satisfy every supplied filter.
C10_CoarseFiltersAreActive ==
    (/\ search_call # NoSearch
     /\ \/ search_call.company # None
        \/ search_call.location # None
        \/ search_call.days # None)
        => /\ search_call.response.status = "ok"
           /\ \A j \in Returned : PassesCoarseFilters(j)

\* the tokens of the texts of the catalogue
TokensOf ==
    [t \in {Catalogue[k].title : k \in DOMAIN Catalogue}
            \cup {Catalogue[k].description : k \in DOMAIN Catalogue} |->
        tokenize_for_search(t)]

\* a search term of the query is a token of the title or of the description
MatchesTerm(j, q) ==
    \E k \in 1..Len(SearchTermsOf[q]) :
        SearchTermsOf[q][k] \in
            Range(TokensOf[j.original_title]) \cup Range(TokensOf[j.description])

\* the title or the description mentions an exclusion term of the query
MentionsExcluded(j, q) ==
    \E k \in 1..Len(ExcludedTermsOf[q]) : Mentions(j, ExcludedTermsOf[q][k])

\* job j is one of the rows the source filter of the request selects
FilterMatched(j) ==
    search_call.source # None
        => \E l \in Range(job_sources) :
              l.job_id = j.id /\ l.source = Val(search_call.source)

\* the filter-matched jobs whose score is not EXCLUDED: every job when the
\* query has no search term, else those that match a term and mention no
\* exclusion term
Survivors ==
    {j \in Range(jobs) :
        /\ FilterMatched(j)
        /\ SearchTermsOf[search_call.query] # <<>>
              => /\ MatchesTerm(j, search_call.query)
                 /\ ~MentionsExcluded(j, search_call.query)}

\* C11: the total of a search is the number of filter-matched jobs whose
\* score is not EXCLUDED, whatever the page and the page size.
C11_TotalCountsSurvivors ==
    search_call.response.status = "ok"
        => search_call.response.total = Cardinality(Survivors)

\* a search has dropped a job and has returned a page shorter than its total
C11_Witness ==
    /\ search_call.response.status = "ok"
    /\ search_call.response.total = Cardinality(Survivors)
    /\ Cardinality(Survivors) < Len(jobs)
    /\ Len(search_call.response.results) < search_call.response.total

\* the pages the client has got, in order, and their jobs in one list
PagesSoFar == Append(search_call.earlier, search_call.response.results)

RECURSIVE Concat(_)
Concat(pages) ==
    IF pages = <<>> THEN <<>>
    ELSE Concat(SubSeq(pages, 1, Len(pages) - 1)) \o pages[Len(pages)]

\* the client has asked for the pages 1, 2, ... up to the current one
FromFirstPage ==
    /\ search_call.response.status = "ok"
    /\ search_call.page = Len(search_call.earlier) + 1

\* C12: for a fixed store, query, filters, sort and page size, the pages 1,
\* 2, ... are pairwise disjoint in job id, every page but the last holds
\* page_size jobs, and together the pages hold the survivors, total of them.
C12_PagesPartitionResults ==
    FromFirstPage =>
        LET all == Concat(PagesSoFar)
            total == search_call.response.total
            size == search_call.page_size
        IN  /\ \A a, b \in 1..Len(all) : all[a].job_id = all[b].job_id => a = b
            /\ \A p \in 1..Len(PagesSoFar) :
                  Len(PagesSoFar[p]) = Min(size, Max(0, total - (p - 1) * size))
            /\ Len(PagesSoFar) * size >= total
                  => {all[k].job_id : k \in 1..Len(all)}
                         = {j.id : j \in Survivors}

\* the search sorts by score: sort is "relevance" and the query has a term
SortsByScore ==
    /\ search_call.response.status = "ok"
    /\ search_call.sort = "relevance"
    /\ SearchTermsOf[search_call.query] # <<>>

\* C13: when sort is "relevance" and the query has a search term, the jobs
\* of a page are in non-increasing order of score, and the jobs of a page
\* score at least as high as those of the next page.
C13_RelevanceOrder ==
    SortsByScore =>
        LET all == Concat(PagesSoFar)
        IN  \A a, b \in 1..Len(all) : a < b => all[a].score >= all[b].score

\* two pages in a row, the first with a higher score than the second
C13_Witness ==
    /\ SortsByScore
    /\ search_call.earlier # <<>>
    /\ search_call.response.results # <<>>
    /\ search_call.earlier[1] # <<>>
    /\ search_call.earlier[1][1].score > search_call.response.results[1].score

\* date_posted of the job a result names
DateOf(id) == (CHOOSE j \in Range(jobs) : j.id = id).date_posted

\* the search does not sort by score: sort is not "relevance", or the query
\* is absent or has no search term
SortsByDate ==
    /\ search_call.response.status = "ok"
    /\ search_call.sort # "relevance" \/ SearchTermsOf[search_call.query] = <<>>

\* C14: with no query, or a query without search terms, the results are in
\* descending order of date_posted even when sort = "relevance", and so they
\* are whenever sort is not "relevance".
C14_DateOrderWithoutTerms ==
    SortsByDate =>
        LET all == Concat(PagesSoFar)
        IN  \A a, b \in 1..Len(all) :
                a < b => DateOf(all[a].job_id) >= DateOf(all[b].job_id)

\* sort = "relevance" without search terms has returned a newer job before
\* an older one
C14_Witness ==
    /\ SortsByDate
    /\ search_call.sort = "relevance"
    /\ LET all == Concat(PagesSoFar)
       IN  /\ Len(all) >= 2
           /\ DateOf(all[1].job_id) > DateOf(all[2].job_id)

\* the page of the request lies outside the pages of the survivor list
BeyondLastPage ==
    /\ search_call.page >= 1
    /\ (search_call.page - 1) * search_call.page_size >= Cardinality(Survivors)

\* the search has returned no job, the total of the survivors, and no error
EmptyPage ==
    /\ search_call.response.status = "ok"
    /\ search_call.response.results = <<>>
    /\ search_call.response.total = Cardinality(Survivors)

\* C15 as stated: for a page number below 1 or beyond the last page, search
\* returns an empty list and the unchanged total and raises no error.
C15_OutOfRangePageIsEmpty ==
    (search_call # NoSearch /\ (search_call.page < 1 \/ BeyondLastPage))
        => EmptyPage

\* C15 amended: the same for page 0 and for the pages beyond the last one.
C15_PageBeyondLastIsEmpty ==
    (search_call # NoSearch /\ (search_call.page = 0 \/ BeyondLastPage))
        => EmptyPage

\* a page beyond the last one of a search that has survivors
C15_Witness ==
    /\ search_call # NoSearch
    /\ BeyondLastPage
    /\ Cardinality(Survivors) > 0
    /\ EmptyPage

\* the filter-matched jobs with a token equal to a search term and no
\* exclusion term in their text
Matching ==
    {j \in Range(jobs) :
        /\ FilterMatched(j)
        /\ MatchesTerm(j, search_call.query)
        /\ ~MentionsExcluded(j, search_call.query)}

\* C16: for a query with a search term, the jobs a search returns are the
\* filter-matched jobs that have a search term among the tokens of their
\* title or description and no exclusion term in their text; the others are
\* neither returned nor counted.
C16_ReturnedIffMatching ==
    (/\ search_call.response.status = "ok"
     /\ SearchTermsOf[search_call.query] # <<>>)
        => /\ Returned \subseteq Matching
           /\ search_call.response.total = Cardinality(Matching)
           /\ (search_call.page = 1 /\ search_call.page_size >= Cardinality(Matching))
                 => Returned = Matching

\* a first page that holds every matching job, while the store holds a
\* filter-matched job without any of the search terms
C16_Witness ==
    /\ search_call.response.status = "ok"
    /\ SearchTermsOf[search_call.query] # <<>>
    /\ search_call.page = 1
    /\ Returned = Matching
    /\ Matching # {}
    /\ \E j \in Range(jobs) :
          /\ FilterMatched(j)
          /\ ~MatchesTerm(j, search_call.query)
          /\ ~MentionsExcluded(j, search_call.query)

\* the fields of a job that make its identity
Identity(j) ==
    <<j.id, j.normalized_company, j.normalized_title, j.original_title,
      j.description>>

\* C17: no step of an ingest call changes the normalized company, the
\* normalized title, the original title or the description of a job that is
\* in the store, and none removes a job from the store.
C17_IdentityFixedAtCreation ==
    [][\A j \in Range(jobs) :
          \E k \in Range(jobs') : Identity(k) = Identity(j)]_vars

\* a job has got a second link from a posting with another raw title and
\* another description, and the posting has since been delivered once more
C17_Witness ==
    /\ session[1].repeat
    /\ session[1].pc = "done"
    /\ session[1].result.status = "ok"
    /\ \E j \in Range(jobs) :
          /\ Cardinality(LinksOfJob(j.id)) >= 2
          /\ \E k \in LinksOfJob(j.id) :
                \E q \in PostingsOfLink(job_sources[k]) :
                    /\ q.title # j.original_title
                    /\ q.description # j.description

\* C18: a step of a search request (the request arrives, the client asks
\* for the next page, the answer is sent) leaves the jobs, the source links
\* and the applications as they are, and leaves every ingest request in
\* flight where it is, with the rows it has written and its counters.
C18_SearchIsReadOnly ==
    [][search_call' # search_call
          => UNCHANGED <<jobs, job_sources, applications, session, calls>>]_vars

\* a search is answered while an ingest request holds a written job in its
\* open transaction, and the store holds a job and an application
C18_Witness ==
    /\ search_call.response.status = "ok"
    /\ search_call.response.total >= 1
    /\ session[1].pc = "loop"
    /\ session[1].new_jobs # <<>>
    /\ jobs # <<>>
    /\ applications # <<>>

\* the similarity of the normalized titles, and of the lowercased first
\* 1000 characters of the descriptions, of the postings of the catalogue
TitleSimilarityOf ==
    [a \in {Catalogue[k].title : k \in DOMAIN Catalogue},
     b \in {Catalogue[k].title : k \in DOMAIN Catalogue} |->
        calculate_text_similarity(NormTitleOf[a], NormTitleOf[b])]

DescSimilarityOf ==
    [a \in {Catalogue[k].description : k \in DOMAIN Catalogue},
     b \in {Catalogue[k].description : k \in DOMAIN Catalogue} |->
        calculate_text_similarity(Lower(Prefix(a, 1000)), Lower(Prefix(b, 1000)))]

\* the three tests of the decision rule on the call in dup_call
CompaniesEqual == NormCompanyOf[dup_call.company1] = NormCompanyOf[dup_call.company2]

TitleGate == FracAtLeast(TitleSimilarityOf[dup_call.title1, dup_call.title2], 75)

DescGate == FracAtLeast(DescSimilarityOf[dup_call.desc1, dup_call.desc2], 70)

Nth(S, k) == CHOOSE i \in S : Cardinality({j \in S : j <= i}) = k

\* the elements of s at the positions P, in order
AtPositions(s, P) == [k \in 1..Cardinality(P) |-> s[Nth(P, k)]]

\* the positions of query where a minus sign is followed by a word character
MatchStarts(q) ==
    {i \in 1..(Len(q) - 1) : q[i] = "-" /\ IsWordChar(q[i + 1])}

\* position i of query lies in the `-word` span that starts at m
InSpan(q, m, i) == m <= i /\ \A k \in (m + 1)..i : IsWordChar(q[k])

\* the last position of the span that starts at m
SpanEnd(q, m) == CHOOSE e \in m..Len(q) :
                    InSpan(q, m, e) /\ (e = Len(q) \/ ~IsWordChar(q[e + 1]))

\* the positions of query outside every `-word` span
Remaining(q) ==
    {i \in 1..Len(q) : \A m \in MatchStarts(q) : ~InSpan(q, m, i)}

NonSpaces(t) == {i \in 1..Len(t) : t[i] # " "}

\* t is r with every run of spaces made one space and the ends trimmed
CollapsedAndTrimmed(t, r) ==
    /\ AtPositions(t, NonSpaces(t)) = AtPositions(r, NonSpaces(r))
    /\ t # <<>> => t[1] # " " /\ t[Len(t)] # " "
    /\ \A i \in 1..(Len(t) - 1) : ~(t[i] = " " /\ t[i + 1] = " ")
    /\ \A k \in 1..(Cardinality(NonSpaces(r)) - 1) :
          (Nth(NonSpaces(t), k + 1) = Nth(NonSpaces(t), k) + 1)
              <=> (Nth(NonSpaces(r), k + 1) = Nth(NonSpaces(r), k) + 1)

\* C20: extract_exclusion_terms returns the words of the `-word` matches of
\* the query, lowercased, in their order and as often as they occur, and a
\* cleaned query that is the query without the matched spans, with every run
\* of spaces made one space and without spaces at its ends; for a query
\* that holds nothing but exclusions and spaces the cleaned query is empty.
C20_ExtractExclusions ==
    parse_call # NoParseCall
        => LET q == parse_call.query
               terms == parse_call.result.exclusion_terms
               cleaned == parse_call.result.cleaned_query
           IN  /\ Len(terms) = Cardinality(MatchStarts(q))
               /\ \A k \in 1..Len(terms) :
                     LET m == Nth(MatchStarts(q), k)
                     IN  terms[k] = Lower(SubSeq(q, m + 1, SpanEnd(q, m)))
               /\ CollapsedAndTrimmed(cleaned, AtPositions(q, Remaining(q)))
               /\ (\A i \in Remaining(q) : q[i] = " ") => cleaned = <<>>

\* a query with an exclusion in capitals between two words: removing the
\* span leaves a run of two spaces
C20_Witness ==
    /\ parse_call # NoParseCall
    /\ parse_call.result.exclusion_terms = <<(<<"b">>)>>
    /\ parse_call.result.cleaned_query = <<"a", " ", "a">>
    /\ Len(parse_call.query) = 6

\* the number of tokens of the title, and of the description, of job j that
\* equal the term w
TitleCount(j, w) == Count(TokensOf[j.original_title], w)

DescCount(j, w) == Count(TokensOf[j.description], w)

\* the score the search has returned for job j
ScoreOf(j) ==
    (CHOOSE r \in Range(search_call.response.results) : r.job_id = j.id).score

AgeDays(call) == call.now - call.date_posted

\* the boost of the call in boost_call is 0.5 * (1 - ageDays / 7), that is
\* (7 - ageDays) / 14, up to day 7 and 0 after, and lies between 0 and 0.5
BoostIsBoundedDecay ==
    boost_call # NoBoostCall
        => /\ boost_call.result =
                 (IF AgeDays(boost_call) <= 7 THEN 7 - AgeDays(boost_call) ELSE 0)
           /\ boost_call.result >= 0
           /\ boost_call.result <= 7
           /\ AgeDays(boost_call) = 0 => boost_call.result = 7
           /\ AgeDays(boost_call) >= 7 => boost_call.result = 0

\* of two calls, the one on the older posting gets no higher boost
BoostIsNonIncreasing ==
    (/\ boost_call # NoBoostCall
     /\ boost_call' # NoBoostCall
     /\ AgeDays(boost_call') >= AgeDays(boost_call))
        => boost_call'.result <= boost_call.result

\* C22: for every posting date the recency boost is 0.5 * (1 - ageDays / 7)
\* when ageDays <= 7 and 0.0 otherwise, lies in [0, 0.5], is 0.5 at day 0 and
\* 0 from day 7 on, and does not increase with ageDays.
C22_BoostIsBoundedLinearDecay ==
    [](BoostIsBoundedDecay) /\ [][BoostIsNonIncreasing]_vars

\* request s gets its answer to POST /applications/{job_id} in this step
Written(s) == app_call[s].pc = "selected" /\ app_call'[s].pc = "idle"

\* no other request has written the row of the job since request s read it
Undisturbed(s) == ApplicationOf(applications, app_call[s].job_id) = app_call[s].found

\* C23: no job ever has two applications; a create_or_update on a job that
\* has an application leaves the table with as many rows as before; and
\* after a create_or_update that no other request has overlapped the job has
\* exactly one application, with the status of the call, and with its notes
\* when the call supplies notes and the notes it had when not.
C23_AtMostOneApplication ==
    [][/\ \A j \in AppJobIds :
            Cardinality(ApplicationOf(applications', j)) <= 1
       /\ \A s \in Sessions :
            (Written(s) /\ Undisturbed(s)) =>
                LET me == app_call[s]
                    after == ApplicationOf(applications', me.job_id)
                IN  /\ app_call'[s].status = 200
                    /\ Cardinality(after) = 1
                    /\ me.found # None => Len(applications') = Len(applications)
                    /\ \A r \in after :
                          /\ r.status = me.app_data.status
                          /\ r.notes = IF me.app_data.notes # None
                                        THEN me.app_data.notes
                                        ELSE IF me.found # None
                                             THEN Val(me.found).notes ELSE None]_vars

\* a second create_or_update for a job has changed the status of its
\* application and kept its notes
C23_Witness ==
    /\ \A s \in Sessions : app_call[s].pc = "idle"
    /\ app_call[1].status = 200
    /\ app_call[2].status = 200
    /\ Len(applications) = 1
    /\ applications[1].status = "Interview"
    /\ applications[1].notes # None
    /\ Len(jobs) = 2

\* request s arrives in this step
Arrives(s) == app_call[s].pc = "idle" /\ app_call'[s] # app_call[s]

\* request s, a DELETE that has found a row, gets its answer in this step
Removed(s) == app_call[s].pc = "deleting" /\ app_call'[s].pc = "idle"

JobExists(job_id) == \E j \in Range(jobs) : j.id = job_id

\* C24: a POST for a job id no JobPosting has and a DELETE for a job without
\* application are answered 404 at once, and nothing changes; only a POST for
\* an existing job and a DELETE for an existing application go on.  No
\* application ever belongs to a job that does not exist.  A DELETE that goes
\* on is answered 200 and takes the row it has found out of the table: the
\* other rows, the JobPostings and the SourceLinks stay as they are.
C24_AbsentRecordsChangeNothing ==
    [][/\ \A r \in Range(applications') : \E j \in Range(jobs') : j.id = r.job_id
       /\ \A s \in Sessions :
            /\ Arrives(s) =>
                  /\ applications' = applications
                  /\ jobs' = jobs
                  /\ job_sources' = job_sources
                  /\ \/ /\ app_call'[s].pc = "selected"
                        /\ JobExists(app_call'[s].job_id)
                     \/ /\ app_call'[s].pc = "deleting"
                        /\ app_call'[s].found # None
                        /\ app_call'[s].found
                              = ApplicationOf(applications, app_call'[s].job_id)
                     \/ /\ app_call'[s] = [pc |-> "idle", status |-> 404]
                        /\ \/ \E j \in AppJobIds : ~JobExists(j)
                           \/ \E j \in AppJobIds :
                                 ApplicationOf(applications, j) = {}
            /\ Removed(s) =>
                  /\ app_call'[s].status = 200
                  /\ jobs' = jobs
                  /\ job_sources' = job_sources
                  /\ Range(applications')
                        = {r \in Range(applications) :
                              \A f \in app_call[s].found : r.id # f.id}
                  /\ Len(applications') >= Len(applications) - 1]_vars

\* the application of job 1 has been deleted and the one of job 2 is still
\* there, as are both JobPostings and their SourceLinks; the other client has
\* been answered 404
C24_Witness ==
    /\ \A s \in Sessions : app_call[s].pc = "idle"
    /\ app_call[1].status = 200
    /\ app_call[2].status = 404
    /\ Len(applications) = 1
    /\ applications[1].id = 2
    /\ applications[1].job_id = 2
    /\ Len(jobs) = 2
    /\ Len(job_sources) = 2

\* the positions of the fetched candidates is_duplicate_job accepts for the
\* posting
AcceptedOf(job_input, fetched) ==
    {k \in 1..Len(fetched) :
        IsDuplicateOf[<<NormCompanyOf[job_input.company],
                        NormTitleOf[job_input.title], job_input.description>>,
                      <<fetched[k].normalized_company,
                        fetched[k].normalized_title,
                        fetched[k].description>>][1]}

\* the similarity is_duplicate_job reports for the posting and a candidate
SimilarityOf(job_input, candidate) ==
    IsDuplicateOf[<<NormCompanyOf[job_input.company],
                    NormTitleOf[job_input.title], job_input.description>>,
                  <<candidate.normalized_company, candidate.normalized_title,
                    candidate.description>>][2]

\* C25: the candidates of a posting are the JobPostings of its normalized
\* company and title; when is_duplicate_job accepts one of them the posting
\* gets exactly one SourceLink, to the first accepted candidate in the order
\* fetched, and no JobPosting is created; when it accepts none the posting is
\* inserted.
C25_FirstMatchMerge ==
    [][(session[1].pc = "dedup" /\ session'[1].pc = "loop") =>
          LET me == session[1]
              job_input == me.jobs[me.i]
              fetched == session'[1].candidates
              accepted == AcceptedOf(job_input, fetched)
              first == CHOOSE k \in accepted : \A h \in accepted : k <= h
          IN  /\ Range(fetched)
                    = Candidates(1, NormCompanyOf[job_input.company],
                                 NormTitleOf[job_input.title])
              /\ Len(session'[1].new_links) = Len(me.new_links) + 1
              /\ SubSeq(session'[1].new_links, 1, Len(me.new_links)) = me.new_links
              /\ IF accepted # {}
                 THEN /\ session'[1].new_jobs = me.new_jobs
                      /\ session'[1].new_links[Len(me.new_links) + 1].job_id
                            = fetched[first].id
                      /\ session'[1].new_links[Len(me.new_links) + 1].source_job_id
                            = job_input.id
                 ELSE Len(session'[1].new_jobs) = Len(me.new_jobs) + 1]_vars

\* the posting has been merged into the candidate fetched first although the
\* one fetched second, accepted too, resembles it more
C25_Witness ==
    LET me == session[1]
    IN  /\ me.pc = "loop"
        /\ me.i > 1
        /\ Len(me.candidates) = 2
        /\ AcceptedOf(me.jobs[me.i - 1], me.candidates) = {1, 2}
        /\ LET a == SimilarityOf(me.jobs[me.i - 1], me.candidates[1])
               b == SimilarityOf(me.jobs[me.i - 1], me.candidates[2])
           IN  a[1] * b[2] < b[1] * a[2]
        /\ me.new_links # <<>>
        /\ me.new_links[Len(me.new_links)].job_id = me.candidates[1].id
        /\ me.new_links[Len(me.new_links)].source_job_id = me.jobs[me.i - 1].id

\* the search has been answered and its query is absent or has no search term
WithoutSearchTerms ==
    /\ search_call.response.status = "ok"
    /\ SearchTermsOf[search_call.query] = <<>>

\* the recency boost of the job with this id at the time of the request, as
\* the integer a score is kept as
BoostScoreOf(job_id) ==
    LET age == search_call.now - DateOf(job_id)
    IN  IF age <= RecencyDays THEN (RecencyDays - age) * ScoreUnit ELSE 0

Returned200 == session[1].pc = "done" /\ session[1].result.status = "ok"

\* C27: after ingest(source, postings) has returned successfully, every
\* posting p of the batch has a SourceLink with the key (source, p.id), source
\* being the argument of the call.
C27_EveryPostingLinkedUnderBatchSource ==
    Returned200 =>
        \A k \in 1..Len(session[1].jobs) :
            \E l \in Range(job_sources) :
                /\ l.source = session[1].source
                /\ l.source_job_id = session[1].jobs[k].id

\* ingest_jobs commits and returns its counts in this step
Returns ==
    /\ session[1].pc = "loop"
    /\ session'[1].pc = "done"
    /\ session'[1].result.status = "ok"

\* C28: the loop takes the postings one by one in input order, and each one
\* is skipped (no count and no row), merged (merged + 1 and one link) or
\* inserted (inserted + 1, one job and one link); the call returns after the
\* last posting, so inserted + merged + skipped = len(postings) with
\* skipped >= 0, and its commit adds `inserted` rows to jobs and
\* `inserted + merged` rows to job_sources.
C28_CountsAccountForStateChange ==
    [][LET me == session[1]
           nx == session'[1]
           skipped == /\ nx.inserted = me.inserted
                      /\ nx.merged = me.merged
                      /\ nx.new_jobs = me.new_jobs
                      /\ nx.new_links = me.new_links
           merged == /\ nx.inserted = me.inserted
                     /\ nx.merged = me.merged + 1
                     /\ nx.new_jobs = me.new_jobs
                     /\ Len(nx.new_links) = Len(me.new_links) + 1
           inserted == /\ nx.inserted = me.inserted + 1
                       /\ nx.merged = me.merged
                       /\ Len(nx.new_jobs) = Len(me.new_jobs) + 1
                       /\ Len(nx.new_links) = Len(me.new_links) + 1
       IN  /\ (me.pc \in {"loop", "dedup"} /\ nx.pc \in {"loop", "dedup"}) =>
                /\ nx.i \in {me.i, me.i + 1}
                /\ nx.i <= Len(me.jobs) + 1
                /\ nx.jobs = me.jobs
                /\ nx.i = me.i => skipped
                /\ nx.i = me.i + 1 => (skipped \/ merged \/ inserted)
                /\ nx.inserted = Len(nx.new_jobs)
                /\ nx.inserted + nx.merged = Len(nx.new_links)
                /\ nx.inserted + nx.merged <= nx.i - 1
           /\ Returns =>
                /\ me.i = Len(me.jobs) + 1
                /\ nx.result.inserted + nx.result.merged <= Len(me.jobs)
                /\ Len(jobs') = Len(jobs) + nx.result.inserted
                /\ Len(job_sources')
                      = Len(job_sources) + nx.result.inserted + nx.result.merged]_vars

\* a call with two postings has returned merged = 1 and inserted = 0: one
\* posting was skipped, and the store has one job with two links
C28_Witness ==
    /\ session[1].pc = "done"
    /\ session[1].result = [status |-> "ok", inserted |-> 0, merged |-> 1]
    /\ Len(session[1].jobs) = 2
    /\ Len(jobs) = 1
    /\ Len(job_sources) = 2

\* C29: in every committed state every job has at least one source link and
\* every source link references a job of the table.
C29_JobsAndLinksConsistent ==
    /\ \A j \in Range(jobs) : \E l \in Range(job_sources) : l.job_id = j.id
    /\ \A l \in Range(job_sources) : \E j \in Range(jobs) : j.id = l.job_id

\* two requests have committed: the store holds a job with the link it was
\* created with and a link merged into it
C29_Witness ==
    /\ \A s \in Sessions : session[s].pc = "done" /\ session[s].result.status = "ok"
    /\ session[1].result.inserted = 1
    /\ session[2].result.merged = 1
    /\ Len(jobs) = 1
    /\ Cardinality(LinksOfJob(jobs[1].id)) = 2

\* the description of posting p is empty or its title normalizes to nothing
WithoutText(p) == p.description = <<>> \/ NormTitleOf[p.title] = <<>>

\* posting p has been inserted: the loop has counted it as inserted and has
\* written one job with its fields and one link
InsertedAsNew(s, p) ==
    /\ session[s].inserted = 1
    /\ session[s].merged = 0
    /\ Len(session[s].new_jobs) = 1
    /\ KeyOfJob(session[s].new_jobs[1]) = KeyOfPosting(p)
    /\ Len(session[s].new_links) = 1
    /\ session[s].new_links[1].job_id = session[s].new_jobs[1].id
    /\ session[s].new_links[1].source_job_id = p.id

====
